---------------------------- MODULE Spec2Model ----------------------------
(***************************************************************************)
(* Sequential Minimal Optimization engine of src/ml/svm.py:                *)
(*   SVC.SMOClassifier (Platt / Keerthi et al.) and                        *)
(*   SVR.SMORegression (Smola-Scholkopf / Shevade et al.).                 *)
(*                                                                         *)
(* Numbers.  The program computes in floating point; the model computes    *)
(* with exact rationals <<numerator, denominator>> in lowest terms, the    *)
(* denominator positive.  Every comparison of the source is made exactly,  *)
(* the comparisons against the tolerances 1e-8, 1e-10 and 1e-12 included.  *)
(* Indices are 0-based as in the source; -1 is "no index".                 *)
(***************************************************************************)
EXTENDS Integers, Sequences, FiniteSets, TLC

(***************************************************************************)
(* Exact rational arithmetic.                                              *)
(***************************************************************************)
\* Euclid's algorithm, as a function so that each step works on values
GcdOf[a \in Nat, b \in Nat] == IF b = 0 THEN a ELSE GcdOf[b, a % b]

Gcd(a, b) == GcdOf[a, b]

IAbs(n) == IF n < 0 THEN -n ELSE n

Norm(n, d) ==
    LET g == Gcd(IAbs(n), IAbs(d))
        sg == IF d < 0 THEN -1 ELSE 1
    IN  <<sg * (n \div g), sg * (d \div g)>>

Q(n) == <<n, 1>>

Frac(n, d) == Norm(n, d)

RNeg(a) == <<-a[1], a[2]>>

\* Numbers are pairs of integers; the operations are functions of them.
Rat == Int \X Int

RAddOf[a \in Rat, b \in Rat] ==
    LET g == Gcd(a[2], b[2])
        l == (a[2] \div g) * b[2]
    IN  Norm(a[1] * (l \div a[2]) + b[1] * (l \div b[2]), l)

RAdd(a, b) == RAddOf[a, b]

RSub(a, b) == RAdd(a, RNeg(b))

RMulOf[a \in Rat, b \in Rat] ==
    LET g1 == Gcd(IAbs(a[1]), b[2])
        g2 == Gcd(IAbs(b[1]), a[2])
    IN  IF a[1] = 0 \/ b[1] = 0 THEN <<0, 1>>
        ELSE <<(a[1] \div g1) * (b[1] \div g2), (a[2] \div g2) * (b[2] \div g1)>>

RMul(a, b) == RMulOf[a, b]

RInv(a) == IF a[1] < 0 THEN <<-a[2], -a[1]>> ELSE <<a[2], a[1]>>

RDiv(a, b) == RMul(a, RInv(b))

RAbs(a) == <<IAbs(a[1]), a[2]>>

\* p/q < r/s for q, s > 0, by comparing the continued-fraction expansions:
\* no product is formed, so the comparison never leaves the integer range.
LtCFOf[p \in Int, q \in Nat, r \in Int, s \in Nat] ==
    LET fa == p \div q
        fb == r \div s
        pa == p - fa * q
        rb == r - fb * s
    IN  IF fa # fb THEN fa < fb
        ELSE IF rb = 0 THEN FALSE
        ELSE IF pa = 0 THEN TRUE
        ELSE LtCFOf[s, rb, q, pa]

LtCF(p, q, r, s) == LtCFOf[p, q, r, s]

RLtOf[a \in Rat, b \in Rat] == LtCF(a[1], a[2], b[1], b[2])

RLt(a, b) == RLtOf[a, b]
RGt(a, b) == RLt(b, a)
RLe(a, b) == ~RLt(b, a)
RGe(a, b) == ~RLt(a, b)
RMax(a, b) == IF RLt(a, b) THEN b ELSE a
RMin(a, b) == IF RLt(b, a) THEN b ELSE a

Zero == <<0, 1>>
One == <<1, 1>>
Two == <<2, 1>>

\* x < 1/(m*k)  and  x <= 1/(m*k)  for integers m, k >= 1, exactly: the
\* tolerances 1e-10 and 1e-12 are 1/(10^5*10^5) and 1/(10^6*10^6).
LtRecip(x, m, k) == x[1] <= 0 \/ (((x[2] - 1) \div x[1]) \div m) >= k
LeRecip(x, m, k) == x[1] <= 0 \/ ((x[2] \div x[1]) \div m) >= k

\* Python evaluates an argument once, before the call: Strict(F, e) is F(e)
\* with e evaluated once and bound to its value.
Strict(F(_), e) == CHOOSE v \in {F(x) : x \in {e}} : TRUE
Strict2(F(_, _), e1, e2) == CHOOSE v \in {F(x1, x2) : x1 \in {e1}, x2 \in {e2}} : TRUE


(***************************************************************************)
(* Training problems.  One run trains on one problem: the feature matrix   *)
(* X (one feature per sample), the labels or targets y, the precomputed    *)
(* kernel matrix K, the box bound C, the tolerance tol and, for            *)
(* regression, epsilon.                                                    *)
(***************************************************************************)
N == 3

Idx(n) == 0 .. (n - 1)

Coords == {-1, 0, 2}

\* SVM.linear: K(X, Y) = <X, Y>
linear(X) == [i \in DOMAIN X |-> [j \in DOMAIN X |-> Q(X[i] * X[j])]]

Vec(seq) == [i \in Idx(Len(seq)) |-> seq[i + 1]]
QVec(seq) == [i \in Idx(Len(seq)) |-> Q(seq[i + 1])]

\* SVC.fit maps the two class labels to -1. and +1.; both must be present
\* (SMOClassifier.__init__ takes the first index of each class).
Labelings(n) ==
    {l \in [Idx(n) -> {Q(-1), Q(1)}] : (\E i \in Idx(n) : l[i] = Q(1)) /\ (\E i \in Idx(n) : l[i] = Q(-1))}

SVCParams ==
    { [C |-> Q(1), tol |-> Frac(1, 1000)],
      [C |-> Q(2), tol |-> Frac(1, 2)],
      [C |-> Frac(1, 2), tol |-> Frac(1, 10)] }

SVCGrid ==
    { [kind |-> "svc", X |-> x, y |-> l, K |-> linear(x), kernel |-> "linear",
       C |-> p.C, tol |-> p.tol, epsilon |-> Zero] :
          x \in [Idx(N) -> Coords], l \in Labelings(N), p \in SVCParams }

RECURSIVE IPow(_, _)
IPow(b, e) == IF e = 0 THEN 1 ELSE b * IPow(b, e - 1)

\* SVM.poly: K(X, Y) = (gamma <X, Y> + coef0)^degree, gamma given as a number
poly(X, degree, gamma, coef0) ==
    [i \in DOMAIN X |-> [j \in DOMAIN X |-> Q(IPow(gamma * X[i] * X[j] + coef0, degree))]]

\* Hard-margin style problems: a very large box bound C.  The first is
\* separable (both samples of class -1 lie left of the sample of class +1)
\* with a positive definite K; the third has an indefinite K; the fourth has
\* four samples that no line separates.
SVCHardMargin ==
    { [kind |-> "svc", X |-> Vec(<<-1, -2, 0>>), y |-> QVec(<<-1, -1, 1>>),
       K |-> poly(Vec(<<-1, -2, 0>>), 2, 1, 1), kernel |-> "poly",
       C |-> Q(100000000), tol |-> Frac(1, 1000), epsilon |-> Zero],
      [kind |-> "svc", X |-> Vec(<<-2, 2, 1>>), y |-> QVec(<<1, -1, -1>>),
       K |-> linear(Vec(<<-2, 2, 1>>)), kernel |-> "linear",
       C |-> Q(10000000), tol |-> Frac(1, 10), epsilon |-> Zero],
      [kind |-> "svc", X |-> Vec(<<-3, 1, 0>>), y |-> QVec(<<1, 1, -1>>),
       K |-> poly(Vec(<<-3, 1, 0>>), 3, 1, -3), kernel |-> "poly",
       C |-> Q(10000000), tol |-> Frac(1, 1000), epsilon |-> Zero],
      [kind |-> "svc", X |-> Vec(<<-2, 2, 1, 1>>), y |-> QVec(<<1, 1, -1, -1>>),
       K |-> linear(Vec(<<-2, 2, 1, 1>>)), kernel |-> "linear",
       C |-> Q(100000000), tol |-> Frac(1, 1000), epsilon |-> Zero] }

Targets == {0, 1}

SVRParams ==
    { [C |-> Q(1), epsilon |-> Zero, tol |-> Frac(1, 1000)],
      [C |-> Q(2), epsilon |-> Frac(1, 2), tol |-> Frac(1, 10)] }

SVRGrid ==
    { [kind |-> "svr", X |-> x, y |-> [i \in Idx(N) |-> Q(t[i])], K |-> linear(x), kernel |-> "linear",
       C |-> p.C, tol |-> p.tol, epsilon |-> p.epsilon] :
          x \in [Idx(N) -> Coords], t \in [Idx(N) -> Targets], p \in SVRParams }

Problems == SVCGrid \cup SVCHardMargin \cup SVRGrid

(***************************************************************************)
(* The solver object.  smo is the SMOClassifier / SMORegression instance   *)
(* (a record of its attributes); pc, examine_all, num_changed and i are    *)
(* the position and the locals of smo(); ret is the value returned by the  *)
(* latest _examine_example call and exc the message of the exception that  *)
(* ended the run ("" while none was raised).                               *)
(***************************************************************************)
VARIABLES smo, pc, examine_all, num_changed, i, ret, exc

vars == <<smo, pc, examine_all, num_changed, i, ret, exc>>

NSamples(s) == Cardinality(DOMAIN s.errors)

\* sys.float_info.max: larger than every number a run computes.
FloatMax == 2147483647

\* The attribute w exists only with the linear kernel.
NoAttr == <<>>

E8 == <<1, 100000000>>

\* utils.clip(x, l, h)
clip(x, l, h) == RMax(l, RMin(x, h))

Free(a, C) == RLt(Zero, a) /\ RLt(a, C)

\* next(i for i in range(len(X)) if y[i] == v)
FirstWith(y, v) == CHOOSE k \in DOMAIN y : y[k] = v /\ \A j \in DOMAIN y : (j < k => y[j] # v)

\* SVM.SMO.__init__ and SVC.SMOClassifier.__init__
NewSMOClassifier(p) ==
    LET n == Cardinality(DOMAIN p.y)
        up == FirstWith(p.y, One)
        low == FirstWith(p.y, Q(-1))
        zeros == [k \in Idx(n) |-> Zero]
    IN  [kind |-> "svc", X |-> p.X, y |-> p.y, K |-> p.K, kernel |-> p.kernel,
         w |-> IF p.kernel = "linear" THEN Zero ELSE NoAttr,
         b |-> Zero, C |-> p.C, tol |-> p.tol,
         alphas |-> zeros,
         errors |-> [[zeros EXCEPT ![up] = Q(-1)] EXCEPT ![low] = One],
         I0 |-> {},
         I1 |-> {k \in Idx(n) : p.y[k] = One},
         I2 |-> {},
         I3 |-> {},
         I4 |-> {k \in Idx(n) : p.y[k] = Q(-1)},
         b_up |-> Q(-1), b_low |-> One,
         b_up_idx |-> up, b_low_idx |-> low]

(***************************************************************************)
(* SVC.SMOClassifier._take_step                                            *)
(***************************************************************************)
\* abs(a2 - alpha2) < 1e-12 * (a2 + alpha2 + 1e-12).  With d = |a2 - alpha2|
\* and z = a2 + alpha2 >= 0 both multiples of 1/D for an integer D < 10^12,
\* (d * 10^12 - z) * D is an integer below D * 10^-12 < 1, so the test is
\* d * 10^12 <= z.
Negligible(a2, alpha2) ==
    LET d == RAbs(RSub(a2, alpha2))
        z == RAdd(a2, alpha2)
    IN  IF d[1] = 0 THEN TRUE
        ELSE IF z[1] <= 0 THEN FALSE
        ELSE LeRecip(RDiv(d, z), 1000000, 1000000)

\* x > 1e-12
Above12(x) == ~LeRecip(x, 1000000, 1000000)

\* SnapC with the upper bound written as the constant 1 instead of C
SnapC_UnitBound(a, C) ==
    IF RGt(a, RSub(C, RMul(E8, C))) THEN One
    ELSE IF RLt(a, RMul(E8, C)) THEN Zero
    ELSE a

\* lines 367-376: to prevent precision problems
SnapC(a, C) ==
    IF RGt(a, RSub(C, RMul(E8, C))) THEN C
    ELSE IF RLt(a, RMul(E8, C)) THEN Zero
    ELSE a

\* UpdateSetsC that adds the index to its new set and never discards it
\* from the sets it has left
UpdateSetsC_NoDiscard(s, k) ==
    LET a == s.alphas[k]
        Put(S, c) == IF c THEN S \cup {k} ELSE S
    IN  [s EXCEPT !.I0 = Put(@, Free(a, s.C)),
                  !.I1 = Put(@, s.y[k] = One /\ a = Zero),
                  !.I2 = Put(@, s.y[k] = Q(-1) /\ a = s.C),
                  !.I3 = Put(@, s.y[k] = One /\ a = s.C),
                  !.I4 = Put(@, s.y[k] = Q(-1) /\ a = Zero)]

\* UpdateSetsC that replaces the set the index enters by the singleton of
\* the index
UpdateSetsC_Assign(s, k) ==
    LET a == s.alphas[k]
        Put(S, c) == IF c THEN {k} ELSE S \ {k}
    IN  [s EXCEPT !.I0 = Put(@, Free(a, s.C)),
                  !.I1 = Put(@, s.y[k] = One /\ a = Zero),
                  !.I2 = Put(@, s.y[k] = Q(-1) /\ a = s.C),
                  !.I3 = Put(@, s.y[k] = One /\ a = s.C),
                  !.I4 = Put(@, s.y[k] = Q(-1) /\ a = Zero)]

\* lines 383-403: update the sets of indices for one index
UpdateSetsC(s, k) ==
    LET a == s.alphas[k]
        Put(S, c) == IF c THEN S \cup {k} ELSE S \ {k}
    IN  [s EXCEPT !.I0 = Put(@, Free(a, s.C)),
                  !.I1 = Put(@, s.y[k] = One /\ a = Zero),
                  !.I2 = Put(@, s.y[k] = Q(-1) /\ a = s.C),
                  !.I3 = Put(@, s.y[k] = One /\ a = s.C),
                  !.I4 = Put(@, s.y[k] = Q(-1) /\ a = Zero)]

NoThresholds ==
    [b_up |-> Q(FloatMax), b_up_idx |-> -1, b_low |-> Q(-FloatMax), b_low_idx |-> -1]

\* lines 414-420: for i in self.I0 (a set of small ints iterates in increasing order)
RECURSIVE ScanI0C(_, _, _)
ScanI0C(s, k, t) ==
    IF k >= NSamples(s) THEN t
    ELSE IF k \notin s.I0 THEN ScanI0C(s, k + 1, t)
    ELSE LET t1 == IF RGt(s.errors[k], t.b_low)
                   THEN [t EXCEPT !.b_low = s.errors[k], !.b_low_idx = k] ELSE t
             t2 == IF RLt(s.errors[k], t1.b_up)
                   THEN [t1 EXCEPT !.b_up = s.errors[k], !.b_up_idx = k] ELSE t1
         IN  Strict(LAMBDA t3 : ScanI0C(s, k + 1, t3), t2)

\* ScanOutsideC with the categories exchanged: I1 and I2 bound b_low, I3 and
\* I4 bound b_up
ScanOutsideC_Swapped(s, k, t) ==
    IF k \in s.I0 THEN t
    ELSE IF k \in s.I1 \/ k \in s.I2
         THEN (IF RGt(s.errors[k], t.b_low)
               THEN [t EXCEPT !.b_low = s.errors[k], !.b_low_idx = k] ELSE t)
    ELSE IF RLt(s.errors[k], t.b_up)
         THEN [t EXCEPT !.b_up = s.errors[k], !.b_up_idx = k]
    ELSE t

\* lines 421-428 and 429-436: i1, i2 outside I0
ScanOutsideC(s, k, t) ==
    IF k \in s.I0 THEN t
    ELSE IF k \in s.I3 \/ k \in s.I4
         THEN (IF RGt(s.errors[k], t.b_low)
               THEN [t EXCEPT !.b_low = s.errors[k], !.b_low_idx = k] ELSE t)
    ELSE IF RLt(s.errors[k], t.b_up)
         THEN [t EXCEPT !.b_up = s.errors[k], !.b_up_idx = k]
    ELSE t

\* lines 405-436
RescanC(s, i1, i2) ==
    Strict(LAMBDA t0 : Strict(LAMBDA t1 : ScanOutsideC(s, i2, t1), ScanOutsideC(s, i1, t0)),
           ScanI0C(s, 0, NoThresholds))

WithThresholds(s, t) ==
    [s EXCEPT !.b_up = t.b_up, !.b_up_idx = t.b_up_idx,
              !.b_low = t.b_low, !.b_low_idx = t.b_low_idx]

\* lines 308-322: the bounds L and H on the new alpha2
BoundsC(s, i1, i2) ==
    LET alpha1 == s.alphas[i1]
        alpha2 == s.alphas[i2]
    IN  IF s.y[i1] # s.y[i2]
        THEN [L |-> RMax(Zero, RSub(alpha2, alpha1)),
              H |-> RMin(s.C, RSub(RAdd(s.C, alpha2), alpha1))]
        ELSE [L |-> RMax(Zero, RSub(RAdd(alpha2, alpha1), s.C)),
              H |-> RMin(s.C, RAdd(alpha2, alpha1))]

Eta(s, i1, i2) == RSub(RAdd(s.K[i1][i1], s.K[i2][i2]), RMul(Two, s.K[i1][i2]))

\* lines 335-345 for g = y2 * (E1 - E2)
PickAlpha2C(alpha2, eta, g, L, H) ==
    IF RGt(eta, Zero) THEN clip(RAdd(alpha2, RDiv(g, eta)), L, H)
    ELSE IF Above12(RSub(RMul(g, L), RMul(g, H))) THEN L
    ELSE IF Above12(RSub(RMul(g, H), RMul(g, L))) THEN H
    ELSE alpha2

\* lines 324-345: the new alpha2
NewAlpha2C(s, i1, i2, L, H) ==
    Strict2(LAMBDA eta, g : PickAlpha2C(s.alphas[i2], eta, g, L, H),
            Eta(s, i1, i2), RMul(s.y[i2], RSub(s.errors[i1], s.errors[i2])))

\* lines 359-365: update error cache using new alphas
NewErrorsC(s, i1, i2, d1, d2) ==
    [k \in DOMAIN s.errors |->
        IF k = i1 THEN RAdd(s.errors[k], RAdd(RMul(d1, s.K[i1][i1]), RMul(d2, s.K[i1][i2])))
        ELSE IF k = i2 THEN RAdd(s.errors[k], RAdd(RMul(d1, s.K[i1][i2]), RMul(d2, s.K[i2][i2])))
        ELSE IF k \in s.I0 THEN RAdd(s.errors[k], RAdd(RMul(d1, s.K[i1][k]), RMul(d2, s.K[i2][k])))
        ELSE s.errors[k]]

\* lines 438-441: raise on a missing threshold, else return True
FinishStep(s2, t) ==
    IF t.b_low_idx = -1 \/ t.b_up_idx = -1
    THEN [ret |-> FALSE, exc |-> "unexpected status", s |-> WithThresholds(s2, t)]
    ELSE [ret |-> TRUE, exc |-> "", s |-> WithThresholds(s2, t)]

\* lines 382-441: the sets of indices, then the thresholds
IndexAndRescanC(s1, i1, i2) ==
    Strict(LAMBDA s2 : Strict(LAMBDA t : FinishStep(s2, t), RescanC(s2, i1, i2)),
           Strict(LAMBDA s3 : UpdateSetsC(s3, i2), UpdateSetsC(s1, i1)))

\* lines 354-380: weight vector, error cache, snapping and the new alphas;
\* d1 = y1 * (a1 - alpha1) and d2 = y2 * (a2 - alpha2)
StoreStepC(s, i1, i2, a1, a2, d1, d2) ==
    [s EXCEPT !.w = IF s.kernel = "linear"
                    THEN RAdd(@, RAdd(RMul(d1, Q(s.X[i1])), RMul(d2, Q(s.X[i2]))))
                    ELSE @,
              !.errors = NewErrorsC(s, i1, i2, d1, d2),
              !.alphas = [[@ EXCEPT ![i1] = SnapC(a1, s.C)] EXCEPT ![i2] = SnapC(a2, s.C)]]

\* lines 351-441: the update once the pair is known to make progress
ApplyStepC(s, i1, i2, a2) ==
    Strict(LAMBDA a1 :
               Strict(LAMBDA s1 : IndexAndRescanC(s1, i1, i2),
                      Strict2(LAMBDA d1, d2 : StoreStepC(s, i1, i2, a1, a2, d1, d2),
                              RMul(s.y[i1], RSub(a1, s.alphas[i1])),
                              RMul(s.y[i2], RSub(a2, s.alphas[i2])))),
           RAdd(s.alphas[i1], RMul(RMul(s.y[i1], s.y[i2]), RSub(s.alphas[i2], a2))))

\* StepOrSkipC that tests for a negligible change only after the update was
\* stored
StepOrSkipC_LateSkip(s, i1, i2, a2) ==
    IF Negligible(a2, s.alphas[i2])
    THEN [ret |-> FALSE, exc |-> "", s |-> ApplyStepC(s, i1, i2, a2).s]
    ELSE ApplyStepC(s, i1, i2, a2)

\* lines 347-349, then the update
StepOrSkipC(s, i1, i2, a2) ==
    IF Negligible(a2, s.alphas[i2]) THEN [ret |-> FALSE, exc |-> "", s |-> s]
    ELSE ApplyStepC(s, i1, i2, a2)

\* lines 321-345, then the rest
WithBoundsC(s, i1, i2, L, H) ==
    IF L = H THEN [ret |-> FALSE, exc |-> "", s |-> s]
    ELSE Strict(LAMBDA a2 : StepOrSkipC(s, i1, i2, a2), NewAlpha2C(s, i1, i2, L, H))

_take_step_C(s, i1, i2) ==
    IF i1 = i2 THEN [ret |-> FALSE, exc |-> "", s |-> s]
    ELSE Strict(LAMBDA B : WithBoundsC(s, i1, i2, B.L, B.H), BoundsC(s, i1, i2))

(***************************************************************************)
(* SVC.SMOClassifier._examine_example                                      *)
(***************************************************************************)
RECURSIVE DotC(_, _, _)
\* (self.alphas * self.y).dot(self.K[i2])
DotC(s, i2, k) ==
    IF k >= NSamples(s) THEN Zero
    ELSE RAdd(RMul(RMul(s.alphas[k], s.y[k]), s.K[i2][k]), DotC(s, i2, k + 1))

\* TightenC that takes the fresh error as the threshold without comparing
TightenC_Unconditional(s1, i2) ==
    IF i2 \in s1.I1 \/ i2 \in s1.I2
    THEN [s1 EXCEPT !.b_up = s1.errors[i2], !.b_up_idx = i2]
    ELSE IF i2 \in s1.I3 \/ i2 \in s1.I4
    THEN [s1 EXCEPT !.b_low = s1.errors[i2], !.b_low_idx = i2]
    ELSE s1

\* lines 450-456: update (b_up, b_up_idx) or (b_low, b_low_idx) using E2 and i2
TightenC(s1, i2) ==
    IF (i2 \in s1.I1 \/ i2 \in s1.I2) /\ RLt(s1.errors[i2], s1.b_up)
    THEN [s1 EXCEPT !.b_up = s1.errors[i2], !.b_up_idx = i2]
    ELSE IF (i2 \in s1.I3 \/ i2 \in s1.I4) /\ RGt(s1.errors[i2], s1.b_low)
    THEN [s1 EXCEPT !.b_low = s1.errors[i2], !.b_low_idx = i2]
    ELSE s1

\* lines 444-456: the error of i2, cached for I0, else computed and stored
RefreshC(s, i2) ==
    IF i2 \in s.I0 THEN s
    ELSE Strict(LAMBDA s1 : TightenC(s1, i2),
                [s EXCEPT !.errors[i2] = RSub(DotC(s, i2, 0), s.y[i2])])

\* LowViolated testing against tol instead of 2 * tol
LowViolated_Tol(s, i2) ==
    (i2 \in s.I0 \/ i2 \in s.I1 \/ i2 \in s.I2)
        /\ RGt(RSub(s.b_low, s.errors[i2]), s.tol)

\* lines 462-469: the two optimality tests
LowViolated(s, i2) ==
    (i2 \in s.I0 \/ i2 \in s.I1 \/ i2 \in s.I2)
        /\ RGt(RSub(s.b_low, s.errors[i2]), RMul(Two, s.tol))
\* UpViolated applied to the categories of LowViolated
UpViolated_SameSide(s, i2) ==
    (i2 \in s.I0 \/ i2 \in s.I1 \/ i2 \in s.I2)
        /\ RGt(RSub(s.errors[i2], s.b_up), RMul(Two, s.tol))

UpViolated(s, i2) ==
    (i2 \in s.I0 \/ i2 \in s.I3 \/ i2 \in s.I4)
        /\ RGt(RSub(s.errors[i2], s.b_up), RMul(Two, s.tol))

\* ChooseI1C preferring, for an index of I0, the threshold index of the
\* smaller difference
ChooseI1C_SmallerGap(s, i2) ==
    IF i2 \in s.I0
    THEN (IF RGt(RSub(s.b_low, s.errors[i2]), RSub(s.errors[i2], s.b_up))
          THEN s.b_up_idx ELSE s.b_low_idx)
    ELSE IF UpViolated(s, i2) THEN s.b_up_idx
    ELSE s.b_low_idx

\* lines 460-479: the index to pair with a violating i2
ChooseI1C(s, i2) ==
    IF i2 \in s.I0
    THEN (IF RGt(RSub(s.b_low, s.errors[i2]), RSub(s.errors[i2], s.b_up))
          THEN s.b_low_idx ELSE s.b_up_idx)
    ELSE IF UpViolated(s, i2) THEN s.b_up_idx
    ELSE s.b_low_idx

\* lines 458-484
CheckAndStepC(s1, i2) ==
    IF ~LowViolated(s1, i2) /\ ~UpViolated(s1, i2) THEN [ret |-> FALSE, exc |-> "", s |-> s1]
    ELSE IF ChooseI1C(s1, i2) = -1
    THEN [ret |-> FALSE, exc |-> "the index could not be found", s |-> s1]
    ELSE _take_step_C(s1, ChooseI1C(s1, i2), i2)

_examine_example_C(s, i2) == Strict(LAMBDA s1 : CheckAndStepC(s1, i2), RefreshC(s, i2))

(***************************************************************************)
(* SVR.SMORegression                                                       *)
(***************************************************************************)
\* SVM.SMO.__init__ and SVR.SMORegression.__init__
NewSMORegression(p) ==
    LET n == Cardinality(DOMAIN p.y)
        zeros == [k \in Idx(n) |-> Zero]
    IN  [kind |-> "svr", X |-> p.X, y |-> p.y, K |-> p.K, kernel |-> p.kernel,
         w |-> IF p.kernel = "linear" THEN Zero ELSE NoAttr,
         b |-> Zero, C |-> p.C, tol |-> p.tol, epsilon |-> p.epsilon,
         alphas_p |-> zeros, alphas_n |-> zeros,
         errors |-> zeros,
         I0 |-> {}, I1 |-> Idx(n), I2 |-> {}, I3 |-> {},
         b_up |-> RAdd(p.y[0], p.epsilon), b_low |-> RSub(p.y[0], p.epsilon),
         b_up_idx |-> 0, b_low_idx |-> 0]

\* lines 688-691: eta, clamped at 0
EtaR(s, i1, i2) == RMax(Zero, Eta(s, i1, i2))

\* line 693
Gamma(s, i1, i2) ==
    RAdd(RSub(s.alphas_p[i1], s.alphas_n[i1]), RSub(s.alphas_p[i2], s.alphas_n[i2]))

\* The body shared by the four case branches (lines 707-722, 729-744,
\* 751-766, 773-788).  The branch works on the multipliers named f1 (of i1)
\* and f2 (of i2); g is the numerator of the unconstrained step of f2, so
\* that a2 = clip(f2 + g / eta, L, H), Lobj = L * g and Hobj = H * g; sgn is
\* +1 where a1 = f1 + (a2 - f2) and -1 where a1 = f1 - (a2 - f2).
CommitCase(st, f1, f2, c, a1, a2) ==
    IF Above12(RAbs(RSub(a1, st[f1]))) \/ Above12(RAbs(RSub(a2, st[f2])))
    THEN [[[[st EXCEPT ![f1] = a1] EXCEPT ![f2] = a2] EXCEPT !.changed = TRUE] EXCEPT ![c] = TRUE]
    ELSE [st EXCEPT ![c] = TRUE]

WithA2(st, f1, f2, sgn, c, a2) ==
    Strict(LAMBDA a1 : CommitCase(st, f1, f2, c, a1, a2),
           IF sgn = 1 THEN RAdd(st[f1], RSub(a2, st[f2])) ELSE RSub(st[f1], RSub(a2, st[f2])))

PickAlpha2R(alpha2, eta, g, L, H) ==
    IF RGt(eta, Zero) THEN clip(RAdd(alpha2, RDiv(g, eta)), L, H)
    ELSE IF RGt(RMul(L, g), RMul(H, g)) THEN L
    ELSE H

BoundedCase(st, eta, L, H, g, f1, f2, sgn, c) ==
    IF RLt(L, H)
    THEN Strict(LAMBDA a2 : WithA2(st, f1, f2, sgn, c, a2), PickAlpha2R(st[f2], eta, g, L, H))
    ELSE [[st EXCEPT !.finished = TRUE] EXCEPT ![c] = TRUE]

TryCase(st, eta, L, H, g, f1, f2, sgn, c) ==
    Strict2(LAMBDA l, h : Strict(LAMBDA g1 : BoundedCase(st, eta, l, h, g1, f1, f2, sgn, c), g),
            L, H)

\* CaseBranch with every case tested on the multipliers of i1 alone
CaseBranch_FirstOnly(s, st, eta, gamma, e2) ==
    IF /\ ~st.case1
       /\ (RGt(st.alpha1_p, Zero) \/ (st.alpha1_n = Zero /\ RGt(st.delta_E, Zero)))
    THEN TryCase(st, eta, RMax(Zero, RSub(gamma, s.C)), RMin(s.C, gamma),
                 RNeg(st.delta_E), "alpha1_p", "alpha2_p", -1, "case1")
    ELSE IF /\ ~st.case2
            /\ (RGt(st.alpha1_p, Zero) \/ (st.alpha1_n = Zero /\ RGt(st.delta_E, e2)))
    THEN TryCase(st, eta, RMax(Zero, RNeg(gamma)), RMin(s.C, RAdd(RNeg(gamma), s.C)),
                 RSub(st.delta_E, e2), "alpha1_p", "alpha2_n", 1, "case2")
    ELSE IF /\ ~st.case3
            /\ (RGt(st.alpha1_n, Zero) \/ (st.alpha1_p = Zero /\ RLt(st.delta_E, RNeg(e2))))
    THEN TryCase(st, eta, RMax(Zero, gamma), RMin(s.C, RAdd(s.C, gamma)),
                 RNeg(RAdd(st.delta_E, e2)), "alpha1_n", "alpha2_p", 1, "case3")
    ELSE IF /\ ~st.case4
            /\ (RGt(st.alpha1_n, Zero) \/ (st.alpha1_p = Zero /\ RLt(st.delta_E, Zero)))
    THEN TryCase(st, eta, RMax(Zero, RSub(RNeg(gamma), s.C)), RMin(s.C, RNeg(gamma)),
                 st.delta_E, "alpha1_n", "alpha2_n", -1, "case4")
    ELSE [st EXCEPT !.finished = TRUE]

\* CaseBranch with no case testing that the other multiplier of the sample
\* is zero before it raises one
CaseBranch_RaiseOver(s, st, eta, gamma, e2) ==
    IF /\ ~st.case1
       /\ (RGt(st.alpha1_p, Zero) \/ RGt(st.delta_E, Zero))
       /\ (RGt(st.alpha2_p, Zero) \/ RLt(st.delta_E, Zero))
    THEN TryCase(st, eta, RMax(Zero, RSub(gamma, s.C)), RMin(s.C, gamma),
                 RNeg(st.delta_E), "alpha1_p", "alpha2_p", -1, "case1")
    ELSE IF /\ ~st.case2
            /\ (RGt(st.alpha1_p, Zero) \/ RGt(st.delta_E, e2))
            /\ (RGt(st.alpha2_n, Zero) \/ RGt(st.delta_E, e2))
    THEN TryCase(st, eta, RMax(Zero, RNeg(gamma)), RMin(s.C, RAdd(RNeg(gamma), s.C)),
                 RSub(st.delta_E, e2), "alpha1_p", "alpha2_n", 1, "case2")
    ELSE IF /\ ~st.case3
            /\ (RGt(st.alpha1_n, Zero) \/ RLt(st.delta_E, RNeg(e2)))
            /\ (RGt(st.alpha2_p, Zero) \/ RLt(st.delta_E, RNeg(e2)))
    THEN TryCase(st, eta, RMax(Zero, gamma), RMin(s.C, RAdd(s.C, gamma)),
                 RNeg(RAdd(st.delta_E, e2)), "alpha1_n", "alpha2_p", 1, "case3")
    ELSE IF /\ ~st.case4
            /\ (RGt(st.alpha1_n, Zero) \/ RLt(st.delta_E, Zero))
            /\ (RGt(st.alpha2_n, Zero) \/ RGt(st.delta_E, Zero))
    THEN TryCase(st, eta, RMax(Zero, RSub(RNeg(gamma), s.C)), RMin(s.C, RNeg(gamma)),
                 st.delta_E, "alpha1_n", "alpha2_n", -1, "case4")
    ELSE [st EXCEPT !.finished = TRUE]

\* lines 701-790: the branch taken by one iteration of the while loop;
\* e2 = 2 * epsilon
CaseBranch(s, st, eta, gamma, e2) ==
    IF /\ ~st.case1
       /\ (RGt(st.alpha1_p, Zero) \/ (st.alpha1_n = Zero /\ RGt(st.delta_E, Zero)))
       /\ (RGt(st.alpha2_p, Zero) \/ (st.alpha2_n = Zero /\ RLt(st.delta_E, Zero)))
    THEN TryCase(st, eta, RMax(Zero, RSub(gamma, s.C)), RMin(s.C, gamma),
                 RNeg(st.delta_E), "alpha1_p", "alpha2_p", -1, "case1")
    ELSE IF /\ ~st.case2
            /\ (RGt(st.alpha1_p, Zero) \/ (st.alpha1_n = Zero /\ RGt(st.delta_E, e2)))
            /\ (RGt(st.alpha2_n, Zero) \/ (st.alpha2_p = Zero /\ RGt(st.delta_E, e2)))
    THEN TryCase(st, eta, RMax(Zero, RNeg(gamma)), RMin(s.C, RAdd(RNeg(gamma), s.C)),
                 RSub(st.delta_E, e2), "alpha1_p", "alpha2_n", 1, "case2")
    ELSE IF /\ ~st.case3
            /\ (RGt(st.alpha1_n, Zero) \/ (st.alpha1_p = Zero /\ RLt(st.delta_E, RNeg(e2))))
            /\ (RGt(st.alpha2_p, Zero) \/ (st.alpha2_n = Zero /\ RLt(st.delta_E, RNeg(e2))))
    THEN TryCase(st, eta, RMax(Zero, gamma), RMin(s.C, RAdd(s.C, gamma)),
                 RNeg(RAdd(st.delta_E, e2)), "alpha1_n", "alpha2_p", 1, "case3")
    ELSE IF /\ ~st.case4
            /\ (RGt(st.alpha1_n, Zero) \/ (st.alpha1_p = Zero /\ RLt(st.delta_E, Zero)))
            /\ (RGt(st.alpha2_n, Zero) \/ (st.alpha2_p = Zero /\ RGt(st.delta_E, Zero)))
    THEN TryCase(st, eta, RMax(Zero, RSub(RNeg(gamma), s.C)), RMin(s.C, RNeg(gamma)),
                 st.delta_E, "alpha1_n", "alpha2_n", -1, "case4")
    ELSE [st EXCEPT !.finished = TRUE]

\* line 792: delta_E after the iteration
BumpDeltaE(s, i2, eta, st1) ==
    [st1 EXCEPT !.delta_E =
        RAdd(@, RMul(eta, RSub(RSub(st1.alpha2_p, st1.alpha2_n),
                               RSub(s.alphas_p[i2], s.alphas_n[i2]))))]

\* lines 701-792: one iteration of the while loop
CaseStep(s, i1, i2, st) ==
    Strict(LAMBDA eta :
               Strict(LAMBDA st1 : BumpDeltaE(s, i2, eta, st1),
                      Strict2(LAMBDA gamma, e2 : CaseBranch(s, st, eta, gamma, e2),
                              Gamma(s, i1, i2), RMul(Two, s.epsilon))),
           EtaR(s, i1, i2))

RECURSIVE CaseLoop(_, _, _, _)
\* line 700: while not finished
CaseLoop(s, i1, i2, st) ==
    IF st.finished THEN st
    ELSE Strict(LAMBDA st1 : CaseLoop(s, i1, i2, st1), CaseStep(s, i1, i2, st))

\* lines 680-698: the locals on entry of the loop
CaseInit(s, i1, i2) ==
    [alpha1_p |-> s.alphas_p[i1], alpha1_n |-> s.alphas_n[i1],
     alpha2_p |-> s.alphas_p[i2], alpha2_n |-> s.alphas_n[i2],
     case1 |-> FALSE, case2 |-> FALSE, case3 |-> FALSE, case4 |-> FALSE,
     changed |-> FALSE, finished |-> FALSE,
     delta_E |-> RSub(s.errors[i1], s.errors[i2])]

\* lines 815-834: to prevent precision problems.  For C > 0,
\* a > C - 1e-10 * C is (C - a) / C < 1e-10 and a <= 1e-10 * C is a / C <= 1e-10.
SnapR(a, C) ==
    IF C[1] = 0 THEN (IF RGt(a, Zero) THEN C ELSE Zero)
    ELSE IF LtRecip(RDiv(RSub(C, a), C), 100000, 100000) THEN C
    ELSE IF LeRecip(RDiv(a, C), 100000, 100000) THEN Zero
    ELSE a

FreeR(s, k) == Free(s.alphas_p[k], s.C) \/ Free(s.alphas_n[k], s.C)

\* lines 841-857: update the sets of indices for one index
UpdateSetsR(s, k) ==
    LET ap == s.alphas_p[k]
        an == s.alphas_n[k]
        Put(S, c) == IF c THEN S \cup {k} ELSE S \ {k}
    IN  [s EXCEPT !.I0 = Put(@, FreeR(s, k)),
                  !.I1 = Put(@, ap = Zero /\ an = Zero),
                  !.I2 = Put(@, ap = Zero /\ an = s.C),
                  !.I3 = Put(@, ap = s.C /\ an = Zero)]

\* lines 865-878: for i in self.I0
RECURSIVE ScanI0R(_, _, _)
ScanI0R(s, k, t) ==
    IF k >= NSamples(s) THEN t
    ELSE IF k \notin s.I0 THEN ScanI0R(s, k + 1, t)
    ELSE LET fp == Free(s.alphas_p[k], s.C)
             fn == Free(s.alphas_n[k], s.C)
             Em == RSub(s.errors[k], s.epsilon)
             Ep == RAdd(s.errors[k], s.epsilon)
             t1 == IF fp /\ RGt(Em, t.b_low) THEN [t EXCEPT !.b_low = Em, !.b_low_idx = k]
                   ELSE IF fn /\ RGt(Ep, t.b_low) THEN [t EXCEPT !.b_low = Ep, !.b_low_idx = k]
                   ELSE t
             t2 == IF fp /\ RLt(Em, t1.b_up) THEN [t1 EXCEPT !.b_up = Em, !.b_up_idx = k]
                   ELSE IF fn /\ RLt(Ep, t1.b_up) THEN [t1 EXCEPT !.b_up = Ep, !.b_up_idx = k]
                   ELSE t1
         IN  Strict(LAMBDA t3 : ScanI0R(s, k + 1, t3), t2)

\* lines 880-894: i1, i2 outside I0
ScanOutsideR(s, k, t) ==
    LET Em == RSub(s.errors[k], s.epsilon)
        Ep == RAdd(s.errors[k], s.epsilon)
        t1 == IF k \in s.I2 /\ RGt(Ep, t.b_low) THEN [t EXCEPT !.b_low = Ep, !.b_low_idx = k]
              ELSE IF k \in s.I1 /\ RGt(Em, t.b_low) THEN [t EXCEPT !.b_low = Em, !.b_low_idx = k]
              ELSE t
        t2 == IF k \in s.I3 /\ RLt(Em, t1.b_up) THEN [t1 EXCEPT !.b_up = Em, !.b_up_idx = k]
              ELSE IF k \in s.I1 /\ RLt(Ep, t1.b_up) THEN [t1 EXCEPT !.b_up = Ep, !.b_up_idx = k]
              ELSE t1
    IN  IF k \in s.I0 THEN t ELSE t2

\* lines 859-894
RescanR(s, i1, i2) ==
    Strict(LAMBDA t0 : Strict(LAMBDA t1 : ScanOutsideR(s, i2, t1), ScanOutsideR(s, i1, t0)),
           ScanI0R(s, 0, NoThresholds))

\* lines 803-813: update error cache using new alphas
NewErrorsR(s, i1, i2, d1, d2) ==
    [k \in DOMAIN s.errors |->
        IF k = i1 THEN RAdd(s.errors[k], RAdd(RMul(d1, s.K[i1][i1]), RMul(d2, s.K[i1][i2])))
        ELSE IF k = i2 THEN RAdd(s.errors[k], RAdd(RMul(d1, s.K[i1][i2]), RMul(d2, s.K[i2][i2])))
        ELSE IF k \in s.I0 THEN RAdd(s.errors[k], RAdd(RMul(d1, s.K[i1][k]), RMul(d2, s.K[i2][k])))
        ELSE s.errors[k]]

\* lines 840-899: the sets of indices, then the thresholds
IndexAndRescanR(s1, i1, i2) ==
    Strict(LAMBDA s2 : Strict(LAMBDA t : FinishStep(s2, t), RescanR(s2, i1, i2)),
           Strict(LAMBDA s3 : UpdateSetsR(s3, i2), UpdateSetsR(s1, i1)))

\* lines 797-838: weight vector, error cache, snapping and the new alphas;
\* d1 and d2 are the old minus the new value of alphas_p - alphas_n at i1, i2
StoreStepR(s, i1, i2, st, d1, d2) ==
    [s EXCEPT !.w = IF s.kernel = "linear"
                    THEN RSub(@, RAdd(RMul(d1, Q(s.X[i1])), RMul(d2, Q(s.X[i2]))))
                    ELSE @,
              !.errors = NewErrorsR(s, i1, i2, d1, d2),
              !.alphas_p = [[@ EXCEPT ![i1] = SnapR(st.alpha1_p, s.C)]
                               EXCEPT ![i2] = SnapR(st.alpha2_p, s.C)],
              !.alphas_n = [[@ EXCEPT ![i1] = SnapR(st.alpha1_n, s.C)]
                               EXCEPT ![i2] = SnapR(st.alpha2_n, s.C)]]

\* lines 797-899: the update once some case changed the multipliers
ApplyStepR(s, i1, i2, st) ==
    Strict(LAMBDA s1 : IndexAndRescanR(s1, i1, i2),
           Strict2(LAMBDA d1, d2 : StoreStepR(s, i1, i2, st, d1, d2),
                   RSub(RSub(s.alphas_p[i1], s.alphas_n[i1]), RSub(st.alpha1_p, st.alpha1_n)),
                   RSub(RSub(s.alphas_p[i2], s.alphas_n[i2]), RSub(st.alpha2_p, st.alpha2_n))))

\* lines 794-899
AfterCasesR(s, i1, i2, st) ==
    IF ~st.changed THEN [ret |-> FALSE, exc |-> "", s |-> s]
    ELSE ApplyStepR(s, i1, i2, st)

_take_step_R(s, i1, i2) ==
    IF i1 = i2 THEN [ret |-> FALSE, exc |-> "", s |-> s]
    ELSE Strict(LAMBDA st : AfterCasesR(s, i1, i2, st),
                Strict(LAMBDA st0 : CaseLoop(s, i1, i2, st0), CaseInit(s, i1, i2)))

(***************************************************************************)
(* SVR.SMORegression._examine_example                                      *)
(***************************************************************************)
RECURSIVE DotR(_, _, _)
\* (self.alphas_p - self.alphas_n).dot(self.K[i2])
DotR(s, i2, k) ==
    IF k >= NSamples(s) THEN Zero
    ELSE RAdd(RMul(RSub(s.alphas_p[k], s.alphas_n[k]), s.K[i2][k]), DotR(s, i2, k + 1))

\* lines 909-921: tighten the thresholds with the fresh error
TightenR(s1, i2) ==
    LET Em == RSub(s1.errors[i2], s1.epsilon)
        Ep == RAdd(s1.errors[i2], s1.epsilon)
    IN  IF i2 \in s1.I1
        THEN (IF RLt(Ep, s1.b_up) THEN [s1 EXCEPT !.b_up = Ep, !.b_up_idx = i2]
              ELSE IF RGt(Em, s1.b_low) THEN [s1 EXCEPT !.b_low = Em, !.b_low_idx = i2]
              ELSE s1)
        ELSE IF i2 \in s1.I2 /\ RGt(Ep, s1.b_low) THEN [s1 EXCEPT !.b_low = Ep, !.b_low_idx = i2]
        ELSE IF i2 \in s1.I3 /\ RLt(Em, s1.b_up) THEN [s1 EXCEPT !.b_up = Em, !.b_up_idx = i2]
        ELSE s1

\* lines 904-921: the error of i2, cached for I0, else computed and stored
RefreshR(s, i2) ==
    IF i2 \in s.I0 THEN s
    ELSE Strict(LAMBDA s1 : TightenR(s1, i2),
                [s EXCEPT !.errors[i2] = RSub(s.y[i2], DotR(s, i2, 0))])

Optimal == [optimal |-> TRUE, i1 |-> -1, exc |-> ""]
Pair(k) == [optimal |-> FALSE, i1 |-> k, exc |-> ""]

\* The two-sided test of lines 929-938, 940-949 and 951-960: ulow is the
\* shifted error compared with b_low, uup the one compared with b_up.
TwoSided(s, ulow, uup) ==
    LET twoTol == RMul(Two, s.tol)
    IN  IF RGt(RSub(s.b_low, ulow), twoTol)
        THEN (IF RGt(RSub(ulow, s.b_up), RSub(s.b_low, ulow)) THEN Pair(s.b_up_idx)
              ELSE Pair(s.b_low_idx))
        ELSE IF RGt(RSub(uup, s.b_up), twoTol)
        THEN (IF RGt(RSub(s.b_low, uup), RSub(uup, s.b_up)) THEN Pair(s.b_low_idx)
              ELSE Pair(s.b_up_idx))
        ELSE Optimal

\* lines 923-970
ChooseI1R(s, i2) ==
    LET E2 == s.errors[i2]
        Em == RSub(E2, s.epsilon)
        Ep == RAdd(E2, s.epsilon)
        twoTol == RMul(Two, s.tol)
    IN  IF i2 \in s.I0
        THEN (IF Free(s.alphas_p[i2], s.C) THEN TwoSided(s, Em, Em)
              ELSE IF Free(s.alphas_n[i2], s.C) THEN TwoSided(s, Ep, Ep)
              ELSE Optimal)
        ELSE IF i2 \in s.I1 THEN TwoSided(s, Ep, Em)
        ELSE IF i2 \in s.I2
        THEN (IF RGt(RSub(Ep, s.b_up), twoTol) THEN Pair(s.b_up_idx) ELSE Optimal)
        ELSE IF i2 \in s.I3
        THEN (IF RGt(RSub(s.b_low, Em), twoTol) THEN Pair(s.b_low_idx) ELSE Optimal)
        ELSE [optimal |-> TRUE, i1 |-> -1, exc |-> "the index could not be found"]

\* lines 972-975
StepIfViolatedR(s1, i2, c) ==
    IF c.exc # "" THEN [ret |-> FALSE, exc |-> c.exc, s |-> s1]
    ELSE IF c.optimal THEN [ret |-> FALSE, exc |-> "", s |-> s1]
    ELSE _take_step_R(s1, c.i1, i2)

CheckAndStepR(s1, i2) == Strict(LAMBDA c : StepIfViolatedR(s1, i2, c), ChooseI1R(s1, i2))

_examine_example_R(s, i2) == Strict(LAMBDA s1 : CheckAndStepR(s1, i2), RefreshR(s, i2))

(***************************************************************************)
(* SMOClassifier.smo and SMORegression.smo                                 *)
(***************************************************************************)
_examine_example(s, i2) ==
    IF s.kind = "svc" THEN _examine_example_C(s, i2) ELSE _examine_example_R(s, i2)

\* line 503 / line 994: the filter of the sweep over the non-bound examples
NonBound(s, k) == IF s.kind = "svc" THEN Free(s.alphas[k], s.C) ELSE FreeR(s, k)

\* line 506 / line 997: self.b_up > self.b_low - 2 * self.tol
GapClosed(s) == RGt(s.b_up, RSub(s.b_low, RMul(Two, s.tol)))

\* Bias with the sign of the regression for both kinds of solver
Bias_SameSign(s) == RDiv(RAdd(s.b_low, s.b_up), Two)

\* line 517 / line 1009
Bias(s) ==
    IF s.kind = "svc" THEN RNeg(RDiv(RAdd(s.b_low, s.b_up), Two))
    ELSE RDiv(RAdd(s.b_low, s.b_up), Two)

\* The constructed solver on entry of the first sweep of smo(): the while
\* test of the first pass holds because examine_all is True.
Init ==
    /\ \E p \in Problems :
          smo = IF p.kind = "svc" THEN NewSMOClassifier(p) ELSE NewSMORegression(p)
    /\ pc = "for"
    /\ examine_all = TRUE
    /\ num_changed = 0
    /\ i = 0
    /\ ret = FALSE
    /\ exc = ""

\* the for statement moves to the next index or the sweep is over
Advance ==
    IF i + 1 < NSamples(smo) THEN i' = i + 1 /\ pc' = "for"
    ELSE i' = i /\ pc' = "sweep_end"

\* lines 497-499 / 988-990: one iteration of the loop over all examples
FullSweepStep ==
    /\ pc = "for"
    /\ examine_all = TRUE
    /\ \E r \in {_examine_example(smo, i)} :
           /\ smo' = r.s
           /\ ret' = r.ret
           /\ exc' = r.exc
           /\ IF r.exc # ""
              THEN pc' = "raised" /\ UNCHANGED <<num_changed, i>>
              ELSE num_changed' = num_changed + (IF r.ret THEN 1 ELSE 0) /\ Advance
    /\ UNCHANGED examine_all

\* ActiveSweepStep whose early exit keeps the update count of the sweep
ActiveSweepStep_KeepCount ==
    /\ pc = "for"
    /\ ~examine_all
    /\ IF ~NonBound(smo, i)
       THEN Advance /\ UNCHANGED <<smo, ret, exc, num_changed>>
       ELSE \E r \in {_examine_example(smo, i)} :
                /\ smo' = r.s
                /\ ret' = r.ret
                /\ exc' = r.exc
                /\ IF r.exc # ""
                   THEN pc' = "raised" /\ UNCHANGED <<num_changed, i>>
                   ELSE /\ num_changed' = num_changed + (IF r.ret THEN 1 ELSE 0)
                        /\ IF GapClosed(r.s) THEN pc' = "sweep_end" /\ i' = i ELSE Advance
    /\ UNCHANGED examine_all

\* lines 500-508 / 991-999: one iteration of the loop over the non-bound examples
ActiveSweepStep ==
    /\ pc = "for"
    /\ ~examine_all
    /\ IF ~NonBound(smo, i)
       THEN Advance /\ UNCHANGED <<smo, ret, exc, num_changed>>
       ELSE \E r \in {_examine_example(smo, i)} :
                /\ smo' = r.s
                /\ ret' = r.ret
                /\ exc' = r.exc
                /\ IF r.exc # ""
                   THEN pc' = "raised" /\ UNCHANGED <<num_changed, i>>
                   ELSE IF GapClosed(r.s)
                   THEN num_changed' = 0 /\ pc' = "sweep_end" /\ i' = i
                   ELSE num_changed' = num_changed + (IF r.ret THEN 1 ELSE 0) /\ Advance
    /\ UNCHANGED examine_all

\* NextMode without the elif branch: the mode never returns to full sweep
NextMode_NoSwitchBack == IF examine_all THEN FALSE ELSE examine_all

\* NextMode that leaves full-sweep mode only after a full sweep without updates
NextMode_RepeatFull ==
    IF examine_all /\ num_changed = 0 THEN FALSE
    ELSE IF num_changed = 0 THEN TRUE ELSE examine_all

\* NextMode that flips the mode after every sweep
NextMode_Toggle == ~examine_all

\* lines 509-512 / 1000-1003: examine_all after the sweep
NextMode == IF examine_all THEN FALSE ELSE IF num_changed = 0 THEN TRUE ELSE examine_all

\* lines 509-512, then the while test holds and lines 494-495 start a sweep
NextSweep ==
    /\ pc = "sweep_end"
    /\ num_changed > 0 \/ NextMode
    /\ examine_all' = NextMode
    /\ num_changed' = 0
    /\ i' = 0
    /\ pc' = "for"
    /\ UNCHANGED <<smo, ret, exc>>

\* lines 509-512, then the while test fails and line 517 / 1009 sets the bias
Return ==
    /\ pc = "sweep_end"
    /\ ~(num_changed > 0 \/ NextMode)
    /\ examine_all' = NextMode
    /\ smo' = [smo EXCEPT !.b = Bias(smo)]
    /\ pc' = "done"
    /\ UNCHANGED <<num_changed, i, ret, exc>>

Next == FullSweepStep \/ ActiveSweepStep \/ NextSweep \/ Return

Spec == Init /\ [][Next]_vars

\* smo() is one sequential call: it keeps running until it returns or raises.
FairSpec == Spec /\ WF_vars(Next)

(***************************************************************************)
(* Properties.                                                             *)
(***************************************************************************)
InBox(a, C) == RLe(Zero, a) /\ RLe(a, C)

RECURSIVE SumFrom(_, _, _)
\* sum of f[k] for k = from .. n - 1
SumFrom(f, from, n) == IF from >= n THEN Zero ELSE RAdd(f[from], SumFrom(f, from + 1, n))

\* sum_i y[i] * alphas[i]  /  sum_i (alphas_p[i] - alphas_n[i])
EqSum(s) ==
    IF s.kind = "svc"
    THEN SumFrom([k \in DOMAIN s.y |-> RMul(s.y[k], s.alphas[k])], 0, NSamples(s))
    ELSE SumFrom([k \in DOMAIN s.y |-> RSub(s.alphas_p[k], s.alphas_n[k])], 0, NSamples(s))

\* C1: in every reachable state every multiplier lies in the box [0, C]:
\* alphas for classification, alphas_p and alphas_n for regression.
C1_BoxInvariant ==
    \A k \in DOMAIN smo.errors :
        IF smo.kind = "svc" THEN InBox(smo.alphas[k], smo.C)
        ELSE InBox(smo.alphas_p[k], smo.C) /\ InBox(smo.alphas_n[k], smo.C)

\* A pair update has just succeeded and left one multiplier clipped at the
\* upper bound C and another strictly inside the box.
C1_Witness ==
    /\ ret /\ pc = "for" /\ smo.kind = "svc"
    /\ \E k \in DOMAIN smo.errors : smo.alphas[k] = smo.C
    /\ \E k \in DOMAIN smo.errors : Free(smo.alphas[k], smo.C)

\* C2: every _take_step call that returns True leaves the equality-constraint
\* sum (sum_i y[i]*alphas[i], resp. sum_i (alphas_p[i] - alphas_n[i])) equal
\* to its value before the call, so the sum stays zero throughout and when
\* smo() returns.
C2_EqualityConstraint ==
    [][(pc = "for" /\ ret') => (EqSum(smo') = EqSum(smo) /\ EqSum(smo') = Zero)]_vars

\* C3: whenever smo() returns, the final thresholds satisfy
\* b_low - b_up <= 2 * tol.
C3_OptimalAtReturn ==
    pc = "done" => RLe(RSub(smo.b_low, smo.b_up), RMul(Two, smo.tol))

\* The samples of one class all lie on one side of the samples of the other.
Separable(s) ==
    LET Pos == {s.X[k] : k \in {j \in DOMAIN s.y : s.y[j] = One}}
        Neg == {s.X[k] : k \in {j \in DOMAIN s.y : s.y[j] = Q(-1)}}
    IN  (\A a \in Pos, b \in Neg : a < b) \/ (\A a \in Pos, b \in Neg : a > b)

RECURSIVE Asc(_)
Asc(S) ==
    IF S = {} THEN <<>>
    ELSE LET m == CHOOSE x \in S : \A z \in S : x <= z IN <<m>> \o Asc(S \ {m})

Drop(seq, j) == [k \in 1 .. (Len(seq) - 1) |-> IF k < j THEN seq[k] ELSE seq[k + 1]]

RECURSIVE Det(_, _, _)
\* determinant of the rows and columns of K listed, by expansion along the first row
Det(K, rows, cols) ==
    IF Len(rows) = 0 THEN One
    ELSE LET Term(j) == RMul(IF j % 2 = 1 THEN One ELSE Q(-1),
                             RMul(K[rows[1]][cols[j]], Det(K, Tail(rows), Drop(cols, j))))
         IN  SumFrom([j \in 0 .. (Len(cols) - 1) |-> Term(j + 1)], 0, Len(cols))

\* K is symmetric with every principal minor >= 0
PosSemiDef(K) ==
    /\ \A a \in DOMAIN K, b \in DOMAIN K : K[a][b] = K[b][a]
    /\ \A S \in SUBSET (DOMAIN K) : RGe(Det(K, Asc(S), Asc(S)), Zero)

\* C4: for a separable classification problem with a symmetric positive
\* semidefinite K, both labels present, C > 0 and tol > 0, smo() eventually
\* leaves its outer loop and returns.
C4_Terminates ==
    (/\ smo.kind = "svc" /\ Separable(smo) /\ PosSemiDef(smo.K)
     /\ RGt(smo.C, Zero) /\ RGt(smo.tol, Zero))
        ~> (pc = "done")

\* C5: each index belongs to exactly one category set, the one its current
\* multiplier value(s) and, for classification, its label determine.
C5_Partition ==
    \A k \in DOMAIN smo.errors :
        IF smo.kind = "svc"
        THEN /\ (k \in smo.I0) = Free(smo.alphas[k], smo.C)
             /\ (k \in smo.I1) = (smo.y[k] = One /\ smo.alphas[k] = Zero)
             /\ (k \in smo.I2) = (smo.y[k] = Q(-1) /\ smo.alphas[k] = smo.C)
             /\ (k \in smo.I3) = (smo.y[k] = One /\ smo.alphas[k] = smo.C)
             /\ (k \in smo.I4) = (smo.y[k] = Q(-1) /\ smo.alphas[k] = Zero)
             /\ Cardinality({S \in {"I0", "I1", "I2", "I3", "I4"} : k \in smo[S]}) = 1
        ELSE /\ (k \in smo.I0) = FreeR(smo, k)
             /\ (k \in smo.I1) = (smo.alphas_p[k] = Zero /\ smo.alphas_n[k] = Zero)
             /\ (k \in smo.I2) = (smo.alphas_p[k] = Zero /\ smo.alphas_n[k] = smo.C)
             /\ (k \in smo.I3) = (smo.alphas_p[k] = smo.C /\ smo.alphas_n[k] = Zero)
             /\ Cardinality({S \in {"I0", "I1", "I2", "I3"} : k \in smo[S]}) = 1

\* A pair update has just moved one index into the free set I0 and left
\* another at the upper bound (I2 or I3).
C5_Witness ==
    ret /\ pc = "for" /\ smo.I0 # {} /\ (smo.I2 \cup smo.I3) # {}

\* C6: smo() leaves its loop only right after a full sweep (examine_all was
\* True for it) in which no pair update succeeded.
C6_ExitAfterQuietFullSweep ==
    [][pc' = "done" => (pc = "sweep_end" /\ examine_all /\ num_changed = 0)]_vars

\* smo() has returned after training moved some multiplier off zero.
C6_Witness ==
    /\ pc = "done"
    /\ \E k \in DOMAIN smo.errors :
          IF smo.kind = "svc" THEN smo.alphas[k] # Zero
          ELSE smo.alphas_p[k] # Zero \/ smo.alphas_n[k] # Zero

\* C7: the driver starts in full-sweep mode; after every full sweep the mode
\* is active-set; after an active-set sweep with zero updates the mode is
\* full-sweep again.
C7_ModeTransition ==
    /\ examine_all = TRUE
    /\ [][pc = "sweep_end" =>
            /\ examine_all => ~examine_all'
            /\ (~examine_all /\ num_changed = 0) => (examine_all' /\ pc' = "for")]_vars

\* A full sweep is starting that is not the first one: some multiplier is
\* already off zero, so an active-set sweep without updates came before.
C7_Witness ==
    /\ pc = "for" /\ examine_all /\ i = 0
    /\ \E k \in DOMAIN smo.errors :
          IF smo.kind = "svc" THEN smo.alphas[k] # Zero
          ELSE smo.alphas_p[k] # Zero \/ smo.alphas_n[k] # Zero

\* C8 as stated: after a sweep of either kind in which at least one pair
\* update succeeded, the next sweep runs in the same mode.
C8_SameModeAfterUpdates ==
    [][(pc = "sweep_end" /\ num_changed > 0) => examine_all' = examine_all]_vars

\* C8 amended: after a sweep that ends with a positive update count the next
\* sweep is an active-set sweep: an active-set sweep repeats its mode, a full
\* sweep is followed by an active-set sweep.
C8_ActiveAfterUpdates ==
    [][(pc = "sweep_end" /\ num_changed > 0) => (pc' = "for" /\ ~examine_all')]_vars

\* An active-set sweep has ended with a positive update count.
C8_Witness == pc = "sweep_end" /\ ~examine_all /\ num_changed > 0

\* C9: in an active-set sweep, right after examining a free index, if
\* b_up > b_low - 2*tol the sweep stops, its update count is reset to zero
\* whatever it was, and the next sweep is a full sweep.
C9_EarlyExit ==
    [][/\ (pc = "for" /\ ~examine_all /\ NonBound(smo, i) /\ exc' = "" /\ GapClosed(smo'))
            => (pc' = "sweep_end" /\ num_changed' = 0 /\ i' = i)
       /\ (pc = "sweep_end" /\ ~examine_all /\ num_changed = 0)
            => (pc' = "for" /\ examine_all' /\ i' = 0)]_vars

\* An active-set sweep has stopped before its last index, right after an
\* examination that made an update, and its count is zero.
C9_Witness ==
    /\ pc = "sweep_end" /\ ~examine_all /\ ret
    /\ i < NSamples(smo) - 1 /\ num_changed = 0

\* The error of i2 as the optimality tests of _examine_example shift it.
WithinBoth(s, i2) ==
    LET twoTol == RMul(Two, s.tol)
        u == IF s.kind = "svc" THEN s.errors[i2]
             ELSE IF Free(s.alphas_p[i2], s.C) THEN RSub(s.errors[i2], s.epsilon)
             ELSE RAdd(s.errors[i2], s.epsilon)
    IN  RLe(RSub(s.b_low, u), twoTol) /\ RLe(RSub(u, s.b_up), twoTol)

\* the for statement is about to call _examine_example(i)
Examines == pc = "for" /\ (examine_all \/ NonBound(smo, i))

\* C10: _examine_example on an index of I0 whose cached error is within
\* 2*tol of both thresholds returns False and changes nothing of the solver.
C10_Idempotent ==
    [][(Examines /\ i \in smo.I0 /\ WithinBoth(smo, i)) => (smo' = smo /\ ~ret')]_vars

\* _examine_example has just returned False for the free, optimal index
\* i - 1, after pair updates had moved multipliers off zero.
C10_Witness ==
    /\ pc = "for" /\ i > 0 /\ ~ret
    /\ (i - 1) \in smo.I0 /\ WithinBoth(smo, i - 1)

\* The solver as _examine_example(i2) leaves it before the optimality tests:
\* lines 444-456 / 904-921.
Refreshed(s, i2) == IF s.kind = "svc" THEN RefreshC(s, i2) ELSE RefreshR(s, i2)

\* _examine_example(i2) on the refreshed solver s1 reaches the call of
\* _take_step: lines 471-484 / 972-975.
StepCalled(s1, i2) ==
    IF s1.kind = "svc"
    THEN (LowViolated(s1, i2) \/ UpViolated(s1, i2)) /\ ChooseI1C(s1, i2) # -1
    ELSE ChooseI1R(s1, i2).exc = "" /\ ~ChooseI1R(s1, i2).optimal

\* A direct call of _take_step on the solver of a running smo(), with any
\* pair of indices; the run is not continued after it.
_take_step(s, i1, i2) ==
    IF s.kind = "svc" THEN _take_step_C(s, i1, i2) ELSE _take_step_R(s, i1, i2)

TakeStepCall ==
    /\ pc = "for"
    /\ \E i1 \in DOMAIN smo.errors, i2 \in DOMAIN smo.errors :
          \E r \in {_take_step(smo, i1, i2)} :
              /\ smo' = r.s
              /\ ret' = r.ret
              /\ exc' = r.exc
    /\ pc' = "stepped"
    /\ UNCHANGED <<examine_all, num_changed, i>>

StepNext == FullSweepStep \/ ActiveSweepStep \/ NextSweep \/ Return \/ TakeStepCall

\* smo() together with _take_step called on any pair at any point of a run
StepSpec == Init /\ [][StepNext]_vars

\* C11: whenever _take_step(i1, i2) returns False, the multipliers, the error
\* cache, the category sets, the thresholds and the weight vector are as they
\* were when it was called, for classification and for regression: for a
\* call on any pair, and for the call _examine_example makes.
C11_NoProgressNoChange ==
    [][/\ (pc' = "stepped" /\ exc' = "" /\ ~ret') => smo' = smo
       /\ (Examines /\ pc' # "stepped" /\ StepCalled(Refreshed(smo, i), i) /\ exc' = "" /\ ~ret')
             => smo' = Refreshed(smo, i)]_vars

\* _take_step has just returned False on a solver whose multipliers earlier
\* updates had moved off zero.
C11_Witness ==
    /\ pc = "stepped" /\ ~ret /\ exc = ""
    /\ \E k \in DOMAIN smo.errors :
          IF smo.kind = "svc" THEN Free(smo.alphas[k], smo.C)
          ELSE Free(smo.alphas_p[k], smo.C) \/ Free(smo.alphas_n[k], smo.C)

\* sum_j alphas[j] * y[j] * K[k, j] - y[k] from the current multipliers
TrueErrorC(s, k) == RSub(DotC(s, k, 0), s.y[k])

\* the cached errors _take_step(i1, i2) reads are current
PairCurrentC(s1, i2) ==
    /\ s1.errors[i2] = TrueErrorC(s1, i2)
    /\ s1.errors[ChooseI1C(s1, i2)] = TrueErrorC(s1, ChooseI1C(s1, i2))

\* C12: classification: in every state the cached error of every index of
\* I0 equals sum_j alphas[j]*y[j]*K[i,j] - y[i] for the current multipliers,
\* and the cached errors of the two indices _examine_example passes to
\* _take_step are current when the step is called.
C12_ErrorCacheCurrent ==
    smo.kind = "svc" =>
        /\ \A k \in smo.I0 : smo.errors[k] = TrueErrorC(smo, k)
        /\ (Examines /\ StepCalled(Refreshed(smo, i), i)) => PairCurrentC(Refreshed(smo, i), i)

\* C13: regression: in every state the cached error of every index of the
\* free category I0 equals the current decision value at the sample,
\* sum_j (alphas_p[j] - alphas_n[j]) * K[i, j], minus its target y[i].
C13_ErrorCacheDefinition ==
    smo.kind = "svr" => \A k \in smo.I0 : smo.errors[k] = RSub(DotR(smo, k, 0), smo.y[k])

\* One iteration of the while loop took the locals st to st1 and raised the
\* multiplier f of a sample while its other multiplier g was positive.
RaisedOver(st, st1, f, g) ==
    RGt(st1[f], st[f]) /\ (RGt(st[g], Zero) \/ RGt(st1[g], Zero))

OneSidedIteration(st, st1) ==
    /\ ~RaisedOver(st, st1, "alpha1_p", "alpha1_n")
    /\ ~RaisedOver(st, st1, "alpha1_n", "alpha1_p")
    /\ ~RaisedOver(st, st1, "alpha2_p", "alpha2_n")
    /\ ~RaisedOver(st, st1, "alpha2_n", "alpha2_p")

RECURSIVE OneSidedCases(_, _, _, _)
\* every iteration of the while loop of _take_step(i1, i2) run from st
OneSidedCases(s, i1, i2, st) ==
    IF st.finished THEN TRUE
    ELSE Strict(LAMBDA st1 : OneSidedIteration(st, st1) /\ OneSidedCases(s, i1, i2, st1),
                CaseStep(s, i1, i2, st))

\* C14: regression: in every state of a run, for every index at most one of
\* alphas_p[i] and alphas_n[i] is non-zero, and in _take_step on any pair no
\* iteration of the four update cases raises one of a sample's two
\* multipliers while the other is positive.
C14_Complementarity ==
    smo.kind = "svr" =>
        /\ \A k \in DOMAIN smo.errors : smo.alphas_p[k] = Zero \/ smo.alphas_n[k] = Zero
        /\ \A i1 \in DOMAIN smo.errors, i2 \in DOMAIN smo.errors :
              i1 # i2 => OneSidedCases(smo, i1, i2, CaseInit(smo, i1, i2))

\* A pair update has left one sample with a positive alphas_p and another
\* with a positive alphas_n.
C14_Witness ==
    /\ smo.kind = "svr" /\ pc = "for" /\ i > 0 /\ ret
    /\ \E k \in DOMAIN smo.errors, j \in DOMAIN smo.errors :
          /\ RGt(smo.alphas_p[k], Zero) /\ RGt(smo.alphas_n[j], Zero)
          /\ (RGt(smo.alphas_p[i - 1], Zero) \/ RGt(smo.alphas_n[i - 1], Zero))

\* C15: in a run of smo() on a problem with both labels present and C > 0
\* the exception 'unexpected status' is never raised: the rescan of the
\* thresholds after a successful pair update finds an index for b_up and
\* an index for b_low.
C15_NoUnexpectedStatus == exc # "unexpected status"

\* The dual objective the solver minimises.  Classification:
\* 1/2 sum_i sum_j alphas[i] y[i] K[i, j] y[j] alphas[j] - sum_i alphas[i];
\* regression, with beta = alphas_p - alphas_n:
\* 1/2 sum_i sum_j beta[i] K[i, j] beta[j] - sum_i y[i] beta[i]
\*     + epsilon sum_i (alphas_p[i] + alphas_n[i]).
DualC(s) ==
    RSub(RMul(Frac(1, 2),
              SumFrom([k \in DOMAIN s.y |-> RMul(RMul(s.alphas[k], s.y[k]), DotC(s, k, 0))],
                      0, NSamples(s))),
         SumFrom(s.alphas, 0, NSamples(s)))

DualR(s) ==
    LET beta == [k \in DOMAIN s.y |-> RSub(s.alphas_p[k], s.alphas_n[k])]
    IN  RAdd(RSub(RMul(Frac(1, 2),
                       SumFrom([k \in DOMAIN s.y |-> RMul(beta[k], DotR(s, k, 0))], 0, NSamples(s))),
                  SumFrom([k \in DOMAIN s.y |-> RMul(s.y[k], beta[k])], 0, NSamples(s))),
             RMul(s.epsilon,
                  SumFrom([k \in DOMAIN s.y |-> RAdd(s.alphas_p[k], s.alphas_n[k])],
                          0, NSamples(s))))

Dual(s) == IF s.kind = "svc" THEN DualC(s) ELSE DualR(s)

\* C16: whenever the _take_step call of _examine_example returns True, the
\* dual objective of the multipliers is strictly lower after the call than
\* it was before.
C16_StrictImprovement ==
    [][(Examines /\ ret' /\ exc' = "") => RLt(Dual(smo'), Dual(smo))]_vars

\* C17: once smo() has returned, b is -(b_low + b_up)/2 for classification
\* and (b_low + b_up)/2 for regression, of the thresholds as the last sweep
\* left them; until then b keeps the 0 of the constructor.
C17_BiasDerivation ==
    IF pc = "done"
    THEN IF smo.kind = "svc"
         THEN RAdd(RMul(Two, smo.b), RAdd(smo.b_low, smo.b_up)) = Zero
         ELSE RMul(Two, smo.b) = RAdd(smo.b_low, smo.b_up)
    ELSE smo.b = Zero

\* smo() has returned after pair updates, with a non-zero bias between two
\* distinct thresholds.
C17_Witness ==
    /\ pc = "done" /\ smo.b # Zero /\ smo.b_low # smo.b_up
    /\ \E k \in DOMAIN smo.errors : k \in smo.I0

\* the optimality gap
Gap(s) == RSub(s.b_low, s.b_up)

\* C18 (as stated): the gap b_low - b_up right after a successful pair update
\* never exceeds its value right after the previous successful update.  ret
\* is the result of the latest _examine_example call, and nothing changes
\* the solver between two calls, so in a state with ret = TRUE the
\* thresholds are as the latest successful update left them; the formula
\* compares two updates that follow each other directly.
C18_MonotoneGap ==
    [][(Examines /\ ret /\ ret' /\ exc' = "") => RLe(Gap(smo'), Gap(smo))]_vars

\* the index _examine_example(i2) pairs with i2 on the refreshed solver s1
I1Chosen(s1, i2) == IF s1.kind = "svc" THEN ChooseI1C(s1, i2) ELSE ChooseI1R(s1, i2).i1

MaxOf(S) == CHOOSE x \in S : \A z \in S : RLe(z, x)
MinOf(S) == CHOOSE x \in S : \A z \in S : RLe(x, z)

\* The cached errors (for regression shifted by -epsilon or +epsilon) that
\* may bound b_low and b_up after an update of the pair P: those of I0, and
\* those of the indices of P outside I0 by their category.
ShiftedFree(s) ==
    {RSub(s.errors[k], s.epsilon) : k \in {j \in s.I0 : Free(s.alphas_p[j], s.C)}}
        \cup {RAdd(s.errors[k], s.epsilon) : k \in {j \in s.I0 : Free(s.alphas_n[j], s.C)}}

LowCandidates(s, P) ==
    IF s.kind = "svc"
    THEN {s.errors[k] : k \in s.I0 \cup {j \in P : j \in s.I3 \/ j \in s.I4}}
    ELSE ShiftedFree(s)
            \cup {RAdd(s.errors[k], s.epsilon) : k \in (P \cap s.I2) \ s.I0}
            \cup {RSub(s.errors[k], s.epsilon) : k \in (P \cap s.I1) \ s.I0}

UpCandidates(s, P) ==
    IF s.kind = "svc"
    THEN {s.errors[k] : k \in s.I0 \cup {j \in P : j \notin s.I3 /\ j \notin s.I4}}
    ELSE ShiftedFree(s)
            \cup {RSub(s.errors[k], s.epsilon) : k \in (P \cap s.I3) \ s.I0}
            \cup {RAdd(s.errors[k], s.epsilon) : k \in (P \cap s.I1) \ s.I0}

\* C18 (amended): right after a successful update of the pair (i1, i2),
\* b_low is the largest and b_up the smallest of the cached errors of I0
\* and of the pair that may bound it, so that the gap measured there is the
\* gap over I0 and the pair only (and follows no order across updates).
C18_GapOfUpdatedPair ==
    [][(Examines /\ ret' /\ exc' = "") =>
          LET P == {I1Chosen(Refreshed(smo, i), i), i}
          IN  /\ smo'.b_low = MaxOf(LowCandidates(smo', P))
              /\ smo'.b_up = MinOf(UpCandidates(smo', P))
              /\ Gap(smo') = RSub(MaxOf(LowCandidates(smo', P)), MinOf(UpCandidates(smo', P)))]_vars

\* A successful pair update has just left a free index and a gap above
\* 2 * tol.
C18_Witness ==
    /\ pc = "for" /\ i > 0 /\ ret /\ exc = ""
    /\ smo.I0 # {}
    /\ RGt(Gap(smo), RMul(Two, smo.tol))

(***************************************************************************)
(* The wrappers SVC and SVR: SVM.__init__ and fit with optimizer = 'SMO'.  *)
(* Before fit the variable smo holds the parameters passed to the          *)
(* constructor; fit replaces it with the engine it creates.                *)
(***************************************************************************)
CValues == {Q(-1), Zero, One, Two}

TolValues == {Frac(-1, 10), Zero, Frac(1, 1000), Frac(1, 10)}

\* the arguments of SVC(...) and SVR(...); the kernel, degree, gamma, coef0,
\* optimizer, epochs and verbose arguments are valid ones
Wrappers ==
    { [kind |-> k, kernel |-> "linear", C |-> c, tol |-> t,
       epsilon |-> IF k = "svr" THEN Frac(1, 2) ELSE Zero] :
          k \in {"svc", "svr"}, c \in CValues, t \in TolValues }

\* SVM.__init__ without the check of C
SVM__init___NoBoundCheck(C, tol) ==
    IF ~RGt(tol, Zero) THEN "tol must be > 0" ELSE ""

\* lines 45-54: the checks of the scalars C and tol; the result is the
\* message of the ValueError raised, "" if none is
SVM__init__(C, tol) ==
    IF ~RGe(C, Zero) THEN "C must be >= 0"
    ELSE IF ~RGt(tol, Zero) THEN "tol must be > 0"
    ELSE ""

\* the training sets passed to fit: labels -1 and +1, which line 531 maps to
\* themselves, or targets
TrainingSets(kind) ==
    IF kind = "svc"
    THEN {[X |-> x, y |-> l] : x \in [Idx(N) -> Coords], l \in Labelings(N)}
    ELSE {[X |-> x, y |-> [k \in Idx(N) |-> Q(t[k])]] :
              x \in [Idx(N) -> Coords], t \in [Idx(N) -> Targets]}

\* lines 535, 549 / 1026, 1040-1041: the kernel matrix and the engine
fit(self, d) ==
    LET p == [kind |-> self.kind, X |-> d.X, y |-> d.y, K |-> linear(d.X),
              kernel |-> self.kernel, C |-> self.C, tol |-> self.tol,
              epsilon |-> self.epsilon]
    IN  IF self.kind = "svc" THEN NewSMOClassifier(p) ELSE NewSMORegression(p)

WrapperInit ==
    /\ smo \in Wrappers
    /\ pc = "init"
    /\ examine_all = TRUE
    /\ num_changed = 0
    /\ i = 0
    /\ ret = FALSE
    /\ exc = ""

Construct ==
    /\ pc = "init"
    /\ exc' = SVM__init__(smo.C, smo.tol)
    /\ pc' = IF exc' = "" THEN "constructed" ELSE "raised"
    /\ UNCHANGED <<smo, examine_all, num_changed, i, ret>>

Fit ==
    /\ pc = "constructed"
    /\ \E d \in TrainingSets(smo.kind) : smo' = fit(smo, d)
    /\ pc' = "for"
    /\ UNCHANGED <<examine_all, num_changed, i, ret, exc>>

WrapperNext == Construct \/ Fit \/ FullSweepStep \/ ActiveSweepStep \/ NextSweep \/ Return

\* construction of a wrapper, then fit and the run of smo()
WrapperSpec == WrapperInit /\ [][WrapperNext]_vars

\* the constructor has returned without raising
Constructed == pc # "init" /\ exc \notin {"C must be >= 0", "tol must be > 0"}

\* C19 (as stated): a wrapper built with C <= 0 or tol <= 0 raises, so that
\* a constructed wrapper and the engine fit runs have C > 0 and tol > 0.
C19_RejectsNonPositive ==
    Constructed => RGt(smo.C, Zero) /\ RGt(smo.tol, Zero)

\* C19 (amended): a wrapper built with C < 0 or tol <= 0 raises, so that a
\* constructed wrapper and the engine fit runs have C >= 0 and tol > 0.
C19_RejectsNegative ==
    /\ Constructed => RGe(smo.C, Zero) /\ RGt(smo.tol, Zero)
    /\ (pc # "init" /\ ~Constructed) => RLt(smo.C, Zero) \/ RLe(smo.tol, Zero)

\* the constructor has raised on a negative C
C19_Witness == pc = "raised" /\ exc = "C must be >= 0" /\ RLt(smo.C, Zero)

\* The categories whose cached error may bound b_low and b_up where the
\* thresholds are tightened (lines 450-456) and rescanned (lines 414-436):
\* I0 bounds both, I3 and I4 bound b_low, I1 and I2 bound b_up.
BoundsLow(s, k) == k \in s.I0 \/ k \in s.I3 \/ k \in s.I4
BoundsUp(s, k) == k \in s.I0 \/ k \in s.I1 \/ k \in s.I2

\* b_low - E2 > 2 * tol and E2 - b_up > 2 * tol on the refreshed solver
BelowLow(s1, i2) == RGt(RSub(s1.b_low, s1.errors[i2]), RMul(Two, s1.tol))
AboveUp(s1, i2) == RGt(RSub(s1.errors[i2], s1.b_up), RMul(Two, s1.tol))

\* _examine_example(i2) finds i2 not optimal, lines 458-472
Declared(s1, i2) == LowViolated(s1, i2) \/ UpViolated(s1, i2)

\* C20 (as stated): classification: _examine_example(i2) declares a
\* violation exactly when i2's category may bound b_low and
\* b_low - E2 > 2*tol, or may bound b_up and E2 - b_up > 2*tol, and pairs
\* i2 with b_low_idx in the first case and with b_up_idx in the second
\* (left open where both hold).
C20_TestAgainstOwnBound ==
    (smo.kind = "svc" /\ Examines) =>
        LET s1 == Refreshed(smo, i)
            lowCase == BoundsLow(s1, i) /\ BelowLow(s1, i)
            upCase == BoundsUp(s1, i) /\ AboveUp(s1, i)
        IN  /\ Declared(s1, i) <=> (lowCase \/ upCase)
            /\ (lowCase /\ ~upCase) => ChooseI1C(s1, i) = s1.b_low_idx
            /\ (upCase /\ ~lowCase) => ChooseI1C(s1, i) = s1.b_up_idx

\* C20 (amended): classification: _examine_example(i2) declares a violation
\* exactly when i2's category may bound b_up and b_low - E2 > 2*tol, or may
\* bound b_low and E2 - b_up > 2*tol; outside I0 it pairs i2 with b_low_idx
\* in the first case and with b_up_idx in the second, and in I0 with
\* b_low_idx if b_low - E2 > E2 - b_up, else with b_up_idx.
C20_TestAgainstOtherBound ==
    (smo.kind = "svc" /\ Examines) =>
        LET s1 == Refreshed(smo, i)
            lowCase == BoundsUp(s1, i) /\ BelowLow(s1, i)
            upCase == BoundsLow(s1, i) /\ AboveUp(s1, i)
        IN  /\ Declared(s1, i) <=> (lowCase \/ upCase)
            /\ (i \notin s1.I0 /\ lowCase) => ChooseI1C(s1, i) = s1.b_low_idx
            /\ (i \notin s1.I0 /\ upCase) => ChooseI1C(s1, i) = s1.b_up_idx
            /\ (i \in s1.I0 /\ Declared(s1, i)) =>
                  ChooseI1C(s1, i) =
                      IF RGt(RSub(s1.b_low, s1.errors[i]), RSub(s1.errors[i], s1.b_up))
                      THEN s1.b_low_idx ELSE s1.b_up_idx

\* After pair updates _examine_example is about to find a violation at an
\* index outside I0, whose error is tested against one threshold only.
C20_Witness ==
    /\ smo.kind = "svc" /\ Examines
    /\ i \notin smo.I0
    /\ \E k \in DOMAIN smo.errors : smo.alphas[k] # Zero
    /\ Declared(Refreshed(smo, i), i)

\* C21: classification: in every state b_up_idx is an index of I0, I1 or I2
\* whose cached error is b_up, and b_low_idx an index of I0, I3 or I4 whose
\* cached error is b_low.  (What the thresholds are right after a successful
\* _take_step is the subject of C18_GapOfUpdatedPair.)
C21_ThresholdRealization ==
    smo.kind = "svc" =>
        /\ smo.b_up_idx \in DOMAIN smo.errors /\ smo.b_low_idx \in DOMAIN smo.errors
        /\ BoundsUp(smo, smo.b_up_idx) /\ smo.errors[smo.b_up_idx] = smo.b_up
        /\ BoundsLow(smo, smo.b_low_idx) /\ smo.errors[smo.b_low_idx] = smo.b_low

\* the index the stated rule pairs with a violating i2 on the refreshed
\* solver s1
PartnerOf(s1, i2) ==
    IF i2 \in s1.I0
    THEN (IF RGt(RSub(s1.b_low, s1.errors[i2]), RSub(s1.errors[i2], s1.b_up))
          THEN s1.b_low_idx ELSE s1.b_up_idx)
    ELSE IF BoundsUp(s1, i2) /\ BelowLow(s1, i2) THEN s1.b_low_idx
    ELSE s1.b_up_idx

\* C22: classification: when _examine_example(i2) finds a violation, the
\* outcome of the call is that of _take_step(i1, i2) with i1 = b_low_idx if
\* i2 is in I0 and b_low - E2 > E2 - b_up, i1 = b_up_idx for the other
\* indices of I0, and i1 the threshold index of the violated side for i2
\* outside I0.
C22_SecondIndexChoice ==
    [][(smo.kind = "svc" /\ Examines /\ Declared(Refreshed(smo, i), i)
            /\ PartnerOf(Refreshed(smo, i), i) # -1)
          => LET r == _take_step_C(Refreshed(smo, i), PartnerOf(Refreshed(smo, i), i), i)
             IN  smo' = r.s /\ ret' = r.ret /\ exc' = r.exc]_vars

\* _examine_example is about to find a violation at an index of I0 whose
\* two candidate partners differ, b_low_idx being the one to take.
C22_Witness ==
    /\ smo.kind = "svc" /\ Examines /\ i \in smo.I0
    /\ Declared(smo, i)
    /\ smo.b_low_idx # smo.b_up_idx
    /\ RGt(RSub(smo.b_low, smo.errors[i]), RSub(smo.errors[i], smo.b_up))
    /\ _take_step_C(smo, smo.b_low_idx, i).ret

\* the multiplier(s) and the categories of index k
MultipliersOf(s, k) ==
    IF s.kind = "svc" THEN <<s.alphas[k]>> ELSE <<s.alphas_p[k], s.alphas_n[k]>>

CategoriesOf(s, k) ==
    <<k \in s.I0, k \in s.I1, k \in s.I2, k \in s.I3, s.kind = "svc" /\ k \in s.I4>>

\* C23: a step of a run changes the multiplier(s) or the category membership
\* of an index only if the step is an _examine_example(i2) call that calls
\* _take_step(i1, i2) and the index is i1 or i2; every other index keeps
\* both, and a call that takes no step and the driver of the sweeps change
\* neither.
C23_Locality ==
    [][\A k \in DOMAIN smo.errors :
          (MultipliersOf(smo', k) # MultipliersOf(smo, k) \/ CategoriesOf(smo', k) # CategoriesOf(smo, k))
             => /\ Examines
                /\ StepCalled(Refreshed(smo, i), i)
                /\ k \in {I1Chosen(Refreshed(smo, i), i), i}]_vars

\* _examine_example is about to make a successful pair update while a
\* third index has a free multiplier.
C23_Witness ==
    /\ Examines
    /\ StepCalled(Refreshed(smo, i), i)
    /\ _take_step(Refreshed(smo, i), I1Chosen(Refreshed(smo, i), i), i).ret
    /\ \E k \in smo.I0 : k \notin {I1Chosen(Refreshed(smo, i), i), i}

\* the error of index k computed from the stored multipliers: line 447 and
\* line 907
FreshError(s, k) ==
    IF s.kind = "svc" THEN RSub(DotC(s, k, 0), s.y[k]) ELSE RSub(s.y[k], DotR(s, k, 0))

\* the threshold attributes of the solver
ThresholdsOf(s) == <<s.b_up, s.b_up_idx, s.b_low, s.b_low_idx>>

\* C24: on an index i2 outside I0, the part of _examine_example(i2) that
\* precedes the optimality tests stores the freshly computed error in
\* errors[i2], never raises b_up and never lowers b_low, changes at most one
\* of the two thresholds, sets the index of the one it changes to i2, and
\* changes nothing else; on an index of I0 it changes nothing.
C24_RefreshOnlyTightens ==
    Examines =>
        LET s1 == Refreshed(smo, i)
        IN  IF i \in smo.I0 THEN s1 = smo
            ELSE /\ s1.errors = [smo.errors EXCEPT ![i] = FreshError(smo, i)]
                 /\ RLe(s1.b_up, smo.b_up) /\ RGe(s1.b_low, smo.b_low)
                 /\ s1.b_up = smo.b_up \/ s1.b_low = smo.b_low
                 /\ IF s1.b_up # smo.b_up THEN s1.b_up_idx = i ELSE s1.b_up_idx = smo.b_up_idx
                 /\ IF s1.b_low # smo.b_low THEN s1.b_low_idx = i ELSE s1.b_low_idx = smo.b_low_idx
                 /\ [s1 EXCEPT !.errors = smo.errors, !.b_up = smo.b_up, !.b_up_idx = smo.b_up_idx,
                               !.b_low = smo.b_low, !.b_low_idx = smo.b_low_idx] = smo

\* After pair updates _examine_example is about to refresh the error of an
\* index outside I0, and the fresh error tightens a threshold.
C24_Witness ==
    /\ Examines /\ i \notin smo.I0 /\ smo.I0 # {}
    /\ FreshError(smo, i) # smo.errors[i]
    /\ ThresholdsOf(Refreshed(smo, i)) # ThresholdsOf(smo)

\* the cases whose flag one iteration of the while loop has set
NewlyEntered(st, st1) ==
    {c \in {"case1", "case2", "case3", "case4"} : st1[c] /\ ~st[c]}

RECURSIVE EnteredCases(_, _, _, _)
\* The sets of cases entered by the successive iterations of the while loop
\* of _take_step(i1, i2) run from the locals st, in order (the empty set for
\* an iteration that enters no case).
EnteredCases(s, i1, i2, st) ==
    IF st.finished THEN <<>>
    ELSE Strict(LAMBDA st1 : <<NewlyEntered(st, st1)>> \o EnteredCases(s, i1, i2, st1),
                CaseStep(s, i1, i2, st))

TrackedDeltaE(s, i1, i2, st) ==
    RAdd(RSub(s.errors[i1], s.errors[i2]),
         RMul(EtaR(s, i1, i2), RSub(RSub(st.alpha2_p, st.alpha2_n),
                                    RSub(s.alphas_p[i2], s.alphas_n[i2]))))

RECURSIVE DeltaETracked(_, _, _, _)
\* delta_E is the tracked value at the start of every iteration of the while
\* loop of _take_step(i1, i2) run from the locals st
DeltaETracked(s, i1, i2, st) ==
    IF st.finished THEN TRUE
    ELSE /\ st.delta_E = TrackedDeltaE(s, i1, i2, st)
         /\ Strict(LAMBDA st1 : DeltaETracked(s, i1, i2, st1), CaseStep(s, i1, i2, st))

\* C26: regression: whenever an examination calls _take_step, delta_E is, at
\* the start of every iteration of the case loop, the initial E1 - E2 plus
\* eta times the net change made so far to alpha2_p - alpha2_n.
C26_DeltaETracking ==
    (smo.kind = "svr" /\ Examines /\ StepCalled(Refreshed(smo, i), i)) =>
        LET s1 == Refreshed(smo, i)
            i1 == I1Chosen(s1, i)
        IN  DeltaETracked(s1, i1, i, CaseInit(s1, i1, i))


RECURSIVE WeightSum(_, _)
\* sum_k y[k] * alphas[k] * X[k] for classification and
\* sum_k (alphas_p[k] - alphas_n[k]) * X[k] for regression, over the samples
\* from k on
WeightSum(s, k) ==
    IF k >= NSamples(s) THEN Zero
    ELSE RAdd(RMul(IF s.kind = "svc" THEN RMul(s.y[k], s.alphas[k])
                   ELSE RSub(s.alphas_p[k], s.alphas_n[k]),
                   Q(s.X[k])),
              WeightSum(s, k + 1))

\* C27: with the linear kernel the weight vector kept by the pair updates is,
\* in every state of smo(), the sum over the samples of the stored
\* multipliers times the sample (signed by the label for classification).
C27_WeightConsistency ==
    smo.kernel = "linear" => smo.w = WeightSum(smo, 0)


(***************************************************************************)
(* fit called again on the same estimator: the part of SVC.fit and SVR.fit *)
(* that follows the call of the optimizer.  The variable smo holds the     *)
(* estimator with the training set of the calls, sol the multipliers the   *)
(* optimizer returns for that set and b the threshold of a run of smo()    *)
(* on it; i counts the calls of fit.                                       *)
(***************************************************************************)
MaxFits == 2

\* the multipliers returned by the optimizers other than 'SMO'
SolValues == {Zero, Frac(1, 2)}

\* the threshold smo.b left by a run of the engine
BValues == {Q(-2), Zero, One}

\* alphas for classification; alphas_p and alphas_n, not both positive at a
\* sample, for regression
Solutions(kind) ==
    IF kind = "svc"
    THEN {[alphas_p |-> a, alphas_n |-> [k \in Idx(N) |-> Zero]] : a \in [Idx(N) -> SolValues]}
    ELSE {s \in [alphas_p : [Idx(N) -> SolValues], alphas_n : [Idx(N) -> SolValues]] :
              \A k \in Idx(N) : s.alphas_p[k] = Zero \/ s.alphas_n[k] = Zero}

\* lines 70-72: the estimator as SVM.__init__ leaves it, with the training
\* set d of its fit calls
Estimator(kind, optimizer, d, sol, b) ==
    [kind |-> kind, optimizer |-> optimizer, kernel |-> "linear",
     epsilon |-> IF kind = "svr" THEN Frac(1, 2) ELSE Zero,
     X |-> d.X, y |-> d.y, K |-> linear(d.X), sol |-> sol, b |-> b,
     intercept_ |-> Zero, fitted |-> <<>>]

\* the training sets of the fit calls, the samples listed by coordinate
RefitSets(kind) ==
    {d \in TrainingSets(kind) : \A k \in Idx(N - 1) : d.X[k] <= d.X[k + 1]}

Estimators ==
    UNION { {Estimator(k, "SMO", d, CHOOSE s \in Solutions(k) : TRUE, b) :
                 d \in RefitSets(k), b \in BValues}
            \cup {Estimator(k, "solve_qp", d, s, Zero) :
                      d \in RefitSets(k), s \in Solutions(k)} :
            k \in {"svc", "svr"} }

\* lines 591 / 1088: sv, the samples with a multiplier above 1e-5
SupportVectors(e) ==
    {k \in Idx(N) : \/ RGt(e.sol.alphas_p[k], Frac(1, 100000))
                    \/ RGt(e.sol.alphas_n[k], Frac(1, 100000))}

\* lines 594 / 1091: self.dual_coef_ at the sample k
dual_coef_(e, k) ==
    IF e.kind = "svc" THEN RMul(e.sol.alphas_p[k], e.y[k])
    ELSE RSub(e.sol.alphas_p[k], e.sol.alphas_n[k])

RECURSIVE KernelSum(_, _, _)
\* lines 603 / 1100: np.sum(self.dual_coef_ * K[self.support_[n], sv])
KernelSum(e, n, k) ==
    IF k >= N THEN Zero
    ELSE RAdd(IF k \in SupportVectors(e) THEN RMul(dual_coef_(e, k), e.K[n][k]) ELSE Zero,
              KernelSum(e, n, k + 1))

RECURSIVE InterceptLoop(_, _, _)
\* lines 601-603 / 1098-1100: for n in range(len(self.alphas)), from the
\* value b that self.intercept_ has on entry
InterceptLoop(e, n, b) ==
    IF n >= N THEN b
    ELSE InterceptLoop(e, n + 1,
                       IF n \in SupportVectors(e)
                       THEN RSub(RAdd(b, e.y[n]), KernelSum(e, n, 0))
                       ELSE b)

\* lines 554 and 596-604 / 1046 and 1093-1102: the intercept_ one
\* call of fit leaves and the exception it raises ("" if none): with 'SMO'
\* the threshold of the engine, otherwise the mean over the support vectors,
\* accumulated in self.intercept_; without support vectors the division by
\* len(self.alphas) = 0 raises.
fit_intercept_(e) ==
    IF e.optimizer = "SMO" THEN [intercept_ |-> e.b, exc |-> ""]
    ELSE LET summed == InterceptLoop(e, 0, e.intercept_)
             shifted == IF e.kind = "svr" THEN RSub(summed, e.epsilon) ELSE summed
         IN  IF SupportVectors(e) = {}
             THEN [intercept_ |-> shifted, exc |-> "ZeroDivisionError"]
             ELSE [intercept_ |-> RDiv(shifted, Q(Cardinality(SupportVectors(e)))),
                   exc |-> ""]

RefitInit ==
    /\ smo \in Estimators
    /\ pc = "estimator"
    /\ examine_all = TRUE
    /\ num_changed = 0
    /\ i = 0
    /\ ret = FALSE
    /\ exc = ""

\* estimator.fit(X, y)
Refit ==
    /\ pc = "estimator"
    /\ i < MaxFits
    /\ LET r == fit_intercept_(smo)
       IN  /\ smo' = [smo EXCEPT !.intercept_ = r.intercept_,
                                 !.fitted = IF r.exc = "" THEN Append(@, r.intercept_) ELSE @]
           /\ exc' = r.exc
           /\ pc' = IF r.exc = "" THEN "estimator" ELSE "raised"
    /\ i' = i + 1
    /\ UNCHANGED <<examine_all, num_changed, ret>>

\* an estimator fitted MaxFits times in a row on the same training set
RefitSpec == RefitInit /\ [][Refit]_vars

\* C28: every call of fit in a row on the same estimator and the same
\* training set leaves the intercept_ the first call left.
C28_FitRepeatable ==
    pc \in {"estimator", "raised"} =>
        \A k \in DOMAIN smo.fitted : smo.fitted[k] = smo.fitted[1]


(***************************************************************************)
(* Subgradient.minimize (src/optimization/unconstrained/subgradient.py)    *)
(* on functions of one real variable.  The variable smo holds the          *)
(* optimizer with the locals of minimize, i is the iteration counter and   *)
(* evaluated the pairs <<x, f(x)>> of the iterates evaluated so far.       *)
(***************************************************************************)
MaxEval == 3

\* np.inf and -np.inf
Inf == <<1, 0>>
NegInf == <<-1, 0>>

\* the objective functions: |x|, x^2 and x^4 - 3/2 x^2
Objectives == {"abs", "square", "quartic"}

\* self.f.function(x)
function(f, x) ==
    IF f = "abs" THEN RAbs(x)
    ELSE IF f = "square" THEN RMul(x, x)
    ELSE RSub(RMul(RMul(x, x), RMul(x, x)), RMul(Frac(3, 2), RMul(x, x)))

\* self.f.jacobian(x): a subgradient of f at x
jacobian(f, x) ==
    IF f = "abs" THEN (IF RLt(x, Zero) THEN Q(-1) ELSE IF x = Zero THEN Zero ELSE One)
    ELSE IF f = "square" THEN RMul(Two, x)
    ELSE RSub(RMul(Q(4), RMul(x, RMul(x, x))), RMul(Q(3), x))

\* lines 100-103 and 118-126: the optimizer built with valid arguments
\* (eps >= 0, a_start >= 0, 0 < tau < 1, min_a >= 0) on entry of the loop;
\* the quartic is minimized with the diminishing step size (eps = 0), which
\* keeps its iterates within the integer range
Subgradients ==
    { o \in [f : Objectives, x : {Q(-1), One, Two}, eps : {Zero, Frac(1, 10)},
             a_start : {One, Frac(1, 2)}, tau : {Frac(1, 2)},
             max_f_eval : {MaxEval}, m_inf : {NegInf, Frac(-1, 2)},
             min_a : {Zero, Frac(1, 4)},
             x_ref : {Q(-1), One, Two}, f_ref : {Inf}, delta : {Zero},
             evaluated : {{}}, status : {""}] :
          /\ o.x_ref = o.x
          /\ o.f = "quartic" => o.eps = Zero }

\* lines 132-136: the displacement delta of the target-level step size
NewDelta(o, v) ==
    IF ~RGt(o.eps, Zero) THEN o.delta
    ELSE IF o.f_ref = Inf \/ RLe(v, RSub(o.f_ref, o.delta))
    THEN RMul(o.a_start, RMax(RAbs(v), One))
    ELSE RMax(RMul(o.delta, o.tau), RMul(o.eps, RMax(RAbs(RMin(v, o.f_ref)), One)))

\* lines 138-140: the incumbent
Incumbent(o, v) ==
    IF o.f_ref = Inf \/ RLt(v, o.f_ref)
    THEN [o EXCEPT !.f_ref = v, !.x_ref = o.x]
    ELSE o

\* lines 165-170: the step size; eps < 0 is rejected by Minimizer.__init__
StepSize(o, v, ng, it) ==
    IF RGt(o.eps, Zero) THEN RDiv(RAdd(RSub(v, o.f_ref), o.delta), ng)
    ELSE RMul(o.a_start, Frac(1, it))

\* lines 160-193: the tests after the null-subgradient test, and the move
StopOrMove(o, v, g, ng, it) ==
    IF it > o.max_f_eval THEN [o EXCEPT !.status = "stopped"]
    ELSE Strict(LAMBDA a :
                    IF RLe(a, o.min_a) THEN [o EXCEPT !.status = "stopped"]
                    ELSE IF o.m_inf # NegInf /\ RLe(v, o.m_inf)
                    THEN [o EXCEPT !.status = "unbounded"]
                    ELSE [o EXCEPT !.x = RSub(o.x, RMul(RDiv(a, ng), g))],
                StepSize(o, v, ng, it))

\* lines 155-158: the null-subgradient test
NullSubgradient(o, v, g, ng, it) ==
    IF LtRecip(ng, 1000000, 1000000)
    THEN [o EXCEPT !.x_ref = o.x, !.status = "optimal"]
    ELSE StopOrMove(o, v, g, ng, it)

\* lines 129-193: one iteration of the while loop
Iteration(o, it) ==
    LET v == function(o.f, o.x)
        g == jacobian(o.f, o.x)
        o1 == Incumbent([o EXCEPT !.delta = NewDelta(o, v),
                                  !.evaluated = @ \cup {<<o.x, v>>}], v)
    IN  NullSubgradient(o1, v, g, RAbs(g), it)

SubgradientInit ==
    /\ smo \in Subgradients
    /\ pc = "while"
    /\ examine_all = TRUE
    /\ num_changed = 0
    /\ i = 1
    /\ ret = FALSE
    /\ exc = ""

\* an iteration that moves to a new point
Move ==
    /\ pc = "while"
    /\ smo' = Iteration(smo, i)
    /\ smo'.status = ""
    /\ i' = i + 1
    /\ UNCHANGED <<pc, examine_all, num_changed, ret, exc>>

\* an iteration that breaks out of the loop; minimize returns x_ref, status
Break ==
    /\ pc = "while"
    /\ smo' = Iteration(smo, i)
    /\ smo'.status # ""
    /\ pc' = "minimized"
    /\ UNCHANGED <<i, examine_all, num_changed, ret, exc>>

SubgradientNext == Move \/ Break

SubgradientSpec == SubgradientInit /\ [][SubgradientNext]_vars

\* C29: whatever the status, the point minimize returns is an iterate it
\* evaluated, and no evaluated iterate has a smaller objective value.
C29_ReturnsBest ==
    pc = "minimized" =>
        \E e \in smo.evaluated :
            /\ e[1] = smo.x_ref
            /\ \A d \in smo.evaluated : RLe(e[2], d[2])


(***************************************************************************)
(* GradientDescent.__iter__                                                *)
(* (src/optimization/unconstrained/gradient_descent.py) on functions of    *)
(* one real variable.  The variable smo holds the optimizer and i counts   *)
(* the iterations of the generator.  __init__ sets neither n_iter nor a    *)
(* list of state_fields; has_n_iter and has_state_fields tell whether the  *)
(* caller has set them on the object.                                      *)
(***************************************************************************)
MaxIter == 3

\* lines 348-364: the optimizer built with valid arguments (step_rate >= 0,
\* momentum >= 0), on |x| or x^2
GradientDescents ==
    [f : {"abs", "square"}, x : {Q(-1), One, Two},
     step_rate : {Zero, Frac(1, 4), Frac(1, 2)}, momentum : {Zero, Frac(1, 2)},
     momentum_type : {"standard", "nesterov", "none"}, step : {Zero},
     n_iter : {0}, has_n_iter : BOOLEAN, has_state_fields : BOOLEAN]

\* lines 372-375: momentum_type == 'standard'
StandardStep(o) ==
    LET gradient == jacobian(o.f, o.x)
        step == RAdd(RMul(gradient, o.step_rate), RMul(o.momentum, o.step))
    IN  [o EXCEPT !.x = RSub(@, step), !.step = step]

\* lines 376-382: momentum_type == 'nesterov'
NesterovStep(o) ==
    LET big_jump == RMul(o.momentum, o.step)
        x1 == RSub(o.x, big_jump)
        correction == RMul(o.step_rate, jacobian(o.f, x1))
    IN  [o EXCEPT !.x = RSub(x1, correction), !.step = RAdd(big_jump, correction)]

\* lines 383-386: momentum_type == 'none'
PlainStep(o) ==
    LET gradient == jacobian(o.f, o.x)
        step == RAdd(o.step, RMul(gradient, o.step_rate))
    IN  [o EXCEPT !.x = RSub(@, step), !.step = step]

\* lines 367-388: the body of the for loop up to self.step = step
StepOf(o) ==
    IF o.momentum_type = "standard" THEN StandardStep(o)
    ELSE IF o.momentum_type = "nesterov" THEN NesterovStep(o)
    ELSE PlainStep(o)

\* lines 389-390: the exception raised before the yield, "" if none:
\* self.n_iter += 1 reads n_iter, extended_info iterates over state_fields
RaisedBeforeYield(o) ==
    IF ~o.has_n_iter THEN "AttributeError"
    ELSE IF ~o.has_state_fields THEN "TypeError"
    ELSE ""

GDInit ==
    /\ smo \in GradientDescents
    /\ pc = "iter"
    /\ examine_all = TRUE
    /\ num_changed = 0
    /\ i = 0
    /\ ret = FALSE
    /\ exc = ""

\* an iteration that reaches the yield
Yield ==
    /\ pc = "iter"
    /\ i < MaxIter
    /\ RaisedBeforeYield(smo) = ""
    /\ smo' = [StepOf(smo) EXCEPT !.n_iter = @ + 1]
    /\ i' = i + 1
    /\ UNCHANGED <<pc, examine_all, num_changed, ret, exc>>

\* an iteration that raises after it has moved x
Raise ==
    /\ pc = "iter"
    /\ i < MaxIter
    /\ RaisedBeforeYield(smo) # ""
    /\ smo' = [StepOf(smo) EXCEPT !.n_iter = IF smo.has_n_iter THEN @ + 1 ELSE @]
    /\ exc' = RaisedBeforeYield(smo)
    /\ pc' = "iter_raised"
    /\ i' = i + 1
    /\ UNCHANGED <<examine_all, num_changed, ret>>

GDNext == Yield \/ Raise

GDSpec == GDInit /\ [][GDNext]_vars

\* C30: with momentum_type = 'none' every iteration moves x to
\* x - step_rate * grad f(x), whatever the earlier iterations did.
C30_Memoryless ==
    [][(pc = "iter" /\ smo.momentum_type = "none") =>
           smo'.x = RSub(smo.x, RMul(smo.step_rate, jacobian(smo.f, smo.x)))]_vars

=============================================================================
